---- MODULE Spec2Model ----
(***************************************************************************)
(* Model of the Brick ontology compiler (generate_brick.py).               *)
(*                                                                         *)
(* The statement store G and the rules graph shaclGraph are sets of        *)
(* triples <<s, p, o>>.  A node is a record [k, n, i]: k is the namespace  *)
(* of a URI ("brick", "tag", "bsh", "sh", ...), "_:" for a blank node, or  *)
(* a literal kind; n is the local name as a sequence of tokens, so that    *)
(* string concatenation is \o and split/replace are computed on tokens;    *)
(* i is the number of an anonymous blank node or of an integer literal.    *)
(***************************************************************************)
EXTENDS Integers, Sequences, FiniteSets, TLC

VARIABLES
    G,                          \* generate_brick.py:59   the statement graph
    shaclGraph,                 \* generate_brick.py:63   the rules graph
    shacl_tag_property_shapes,  \* generate_brick.py:67   tag -> detection condition
    has_exactly_n_tags_shapes,  \* generate_brick.py:68   n -> exact-cardinality shape
    bnodes,                     \* number of anonymous BNode() made so far
    warnings,                   \* number of logging.warning calls so far
    raised,                     \* TRUE once an exception left a compiler
    pc,                         \* position of the module-level script
    input,                      \* the static definitions the script compiles
    calls,                      \* number of compiler invocations so far
    log,                        \* history: the compiler invocations made
    last,                       \* history: the latest compiler invocation
    done,                       \* history: the script's steps, in order
    other,                      \* the state of a second, independent run
    hashseed                    \* the set iteration orders of the two processes

vars == <<G, shaclGraph, shacl_tag_property_shapes, has_exactly_n_tags_shapes,
          bnodes, warnings, raised, pc, input, calls, log, last, done, other,
          hashseed>>

----------------------------------------------------------------------------
(* Bounds of the model *)

\* add_tags invocations in a run of SpecTags
MaxCalls == 3

\* compiler invocations in a run of SpecClasses
MaxClassCalls == 2

\* length of a tag list handed to add_tags
MaxTags == 2

----------------------------------------------------------------------------
(* Nodes: URIs, blank nodes, literals *)

Node(k, n, i) == [k |-> k, n |-> n, i |-> i]

URI(ns, name) == Node(ns, name, 0)

BRICK(name) == URI("brick", name)

TAG(name) == URI("tag", name)

BSH(name) == URI("bsh", name)

SH(w) == URI("sh", <<w>>)

RDF(w) == URI("rdf", <<w>>)

RDFS(w) == URI("rdfs", <<w>>)

OWL(w) == URI("owl", <<w>>)

SKOS(w) == URI("skos", <<w>>)

QUDT(w) == URI("qudt", <<w>>)

XSD(w) == URI("xsd", <<w>>)

A == RDF("type")

\* BNode(name): a blank node with a given identifier
BNodeNamed(name) == Node("_:", name, 0)

\* BNode(): the n-th anonymous blank node of the run
BNodeAnon(n) == Node("_:", << >>, n)

\* Literal("text")
Literal(text) == Node("lit", text, 0)

\* Literal(7), Literal(7, datatype=XSD.integer)
LiteralInt(v) == Node("int", << >>, v)

\* Literal(True)
LiteralTrue == Node("bool", <<"true">>, 1)

\* uri.split("#")[-1]
LocalName(u) == u.n

\* str(uri): namespace, "#", local name
Str(u) == <<u.k, "#">> \o u.n

RECURSIVE Replace(_, _, _)
\* text.replace(old, new), token by token
Replace(text, old, new) ==
    IF text = << >> THEN << >>
    ELSE <<IF Head(text) = old THEN new ELSE Head(text)>>
         \o Replace(Tail(text), old, new)

Range(seq) == {seq[j] : j \in 1..Len(seq)}

----------------------------------------------------------------------------
(* The compiler state threaded through the compiler functions *)

Cur ==
    [G |-> G, shaclGraph |-> shaclGraph,
     shacl_tag_property_shapes |-> shacl_tag_property_shapes,
     has_exactly_n_tags_shapes |-> has_exactly_n_tags_shapes,
     bnodes |-> bnodes, warnings |-> warnings, raised |-> raised]

Empty ==
    [G |-> {}, shaclGraph |-> {},
     shacl_tag_property_shapes |-> [t \in {} |-> A],
     has_exactly_n_tags_shapes |-> [m \in {} |-> A],
     bnodes |-> 0, warnings |-> 0, raised |-> FALSE]

Commit(s) ==
    /\ G' = s.G
    /\ shaclGraph' = s.shaclGraph
    /\ shacl_tag_property_shapes' = s.shacl_tag_property_shapes
    /\ has_exactly_n_tags_shapes' = s.has_exactly_n_tags_shapes
    /\ bnodes' = s.bnodes
    /\ warnings' = s.warnings
    /\ raised' = s.raised

\* G.add(t) for every t of ts
GAdd(s, ts) == [s EXCEPT !.G = @ \cup ts]

\* shaclGraph.add(t) for every t of ts
SAdd(s, ts) == [s EXCEPT !.shaclGraph = @ \cup ts]

\* faulty variant: the presence query never finds a label
has_label_Never(s, concept) == FALSE

\* has_label(concept)
has_label(s, concept) ==
    Cardinality({t \in s.G : t[1] = concept /\ t[2] = RDFS("label")}) > 0

----------------------------------------------------------------------------
(* add_tags *)

\* faulty variant: the tags are associated but never declared to be tags
TagStatements_Undeclared(klass, definition) ==
    {<<klass, BRICK(<<"hasAssociatedTag">>), tag>> : tag \in Range(definition)}

\* lines 132-137: the tag statements of the class
TagStatements(klass, definition) ==
    UNION {{<<klass, BRICK(<<"hasAssociatedTag">>), tag>>,
            <<tag, A, BRICK(<<"Tag">>)>>,
            <<tag, RDFS("label"), Literal(LocalName(tag))>>}
           : tag \in Range(definition)}

\* lines 140-150: the class's tag shape and its inference rule
TagShapeOf(klass) == BSH(LocalName(klass) \o <<"_TagShape">>)

TagRuleOf(klass) == BNodeNamed(Str(klass) \o <<"TagInferenceRule">>)

RuleStatements(klass) ==
    LET sc == TagShapeOf(klass)
        rule == TagRuleOf(klass)
    IN {<<sc, A, SH("NodeShape")>>,
        <<sc, SH("rule"), rule>>,
        <<rule, A, SH("TripleRule")>>,
        <<rule, SH("subject"), SH("this")>>,
        <<rule, SH("predicate"), RDF("type")>>,
        <<rule, SH("object"), klass>>}

\* lines 153-159: the rule that gives the tag to the instances of the class
ClassRuleStatements(klass, tag) ==
    LET classrule == BNodeNamed(<<"add_">> \o LocalName(tag) \o <<"_to_">>
                                \o LocalName(klass))
    IN {<<klass, A, SH("NodeShape")>>,
        <<klass, SH("rule"), classrule>>,
        <<classrule, A, SH("TripleRule")>>,
        <<classrule, SH("subject"), SH("this")>>,
        <<classrule, SH("predicate"), BRICK(<<"hasTag">>)>>,
        <<classrule, SH("object"), tag>>}

\* faulty variant: the cache is never consulted
TagShapeCached_Never(s, tag) == FALSE

\* line 160: the cache test of the tag detection conditions
TagShapeCached(s, tag) == tag \in DOMAIN s.shacl_tag_property_shapes

\* lines 160-175: the detection condition of the tag, made on first use
TagDetectionCondition(s, rule, tag) ==
    IF ~TagShapeCached(s, tag)
    THEN LET cond == BNodeNamed(<<"has_">> \o LocalName(tag) \o <<"_condition">>)
             prop == BNodeNamed(<<"has_">> \o LocalName(tag) \o <<"_tag">>)
             tagshape == BNodeAnon(s.bnodes + 1)
             s1 == SAdd(s,
                     {<<rule, SH("condition"), cond>>,
                      <<cond, SH("property"), prop>>,
                      <<prop, SH("path"), BRICK(<<"hasTag">>)>>,
                      <<prop, SH("qualifiedValueShape"), tagshape>>,
                      <<tagshape, SH("hasValue"), tag>>,
                      <<prop, SH("qualifiedMinCount"), LiteralInt(1)>>})
         IN [s1 EXCEPT
               !.bnodes = @ + 1,
               !.shacl_tag_property_shapes =
                   [t \in DOMAIN @ \cup {tag} |-> IF t = tag THEN cond ELSE @[t]]]
    ELSE s

\* line 176: the rule is conditioned on the cached detection condition
RuleCondition(s, rule, tag) ==
    SAdd(s, {<<rule, SH("condition"), s.shacl_tag_property_shapes[tag]>>})

\* lines 152-176: one iteration of the loop over the tags
TagCondition(s, klass, rule, tag) ==
    RuleCondition(
        TagDetectionCondition(GAdd(s, ClassRuleStatements(klass, tag)), rule, tag),
        rule, tag)

RECURSIVE TagConditions(_, _, _, _)
TagConditions(s, klass, rule, definition) ==
    IF definition = << >> THEN s
    ELSE TagConditions(TagCondition(s, klass, rule, Head(definition)),
                       klass, rule, Tail(definition))

\* faulty variant: the fragment named after the distinct tags, but keyed by the length
NumTags_Distinct(definition) == Cardinality(Range(definition))

\* line 177: the number of tags the fragment is named after
NumTags(definition) == Len(definition)

\* lines 178-200: the exact-cardinality shape and its companion rule
CardinalityShape(s, definition) ==
    LET num_tags == NumTags(definition)
    IN IF Len(definition) \notin DOMAIN s.has_exactly_n_tags_shapes
       THEN LET cond == BSH(<<"has_exactly_", "tags_condition">>)
                prop == BNodeNamed(<<"has_exactly_", "tags">>)
                rule == BSH(<<"has_exactly_", "tags_rule">>)
                body == BNodeNamed(<<"has_", "tags_body">>)
                condN == [cond EXCEPT !.i = num_tags]
                propN == [prop EXCEPT !.i = num_tags]
                ruleN == [rule EXCEPT !.i = num_tags]
                bodyN == [body EXCEPT !.i = num_tags]
                s1 == SAdd(s,
                        {<<condN, A, OWL("Class")>>,
                         <<condN, A, SH("NodeShape")>>,
                         <<condN, SH("property"), propN>>,
                         <<propN, SH("path"), BRICK(<<"hasTag">>)>>,
                         <<propN, SH("minCount"), LiteralInt(Len(definition))>>,
                         <<propN, SH("maxCount"), LiteralInt(Len(definition))>>,
                         <<ruleN, A, SH("NodeShape")>>,
                         <<ruleN, SH("targetSubjectsOf"), BRICK(<<"hasTag">>)>>,
                         <<ruleN, SH("rule"), bodyN>>,
                         <<bodyN, A, SH("TripleRule")>>,
                         <<bodyN, SH("subject"), SH("this")>>,
                         <<bodyN, SH("predicate"), RDF("type")>>,
                         <<bodyN, SH("object"), condN>>,
                         <<bodyN, SH("condition"), condN>>})
            IN [s1 EXCEPT !.has_exactly_n_tags_shapes =
                    [m \in DOMAIN @ \cup {Len(definition)} |->
                        IF m = Len(definition) THEN condN ELSE @[m]]]
       ELSE s

\* faulty variant: the class rule aimed at every tagged entity (the target of line 142)
RuleTarget_AnyTagged(s, klass, definition) ==
    <<TagShapeOf(klass), SH("targetSubjectsOf"), BRICK(<<"hasTag">>)>>

\* line 203: the class rule is aimed at the shared cardinality shape
RuleTarget(s, klass, definition) ==
    <<TagShapeOf(klass), SH("targetClass"),
      s.has_exactly_n_tags_shapes[Len(definition)]>>

\* line 203: the statement that aims the class rule
TargetRule(s, klass, definition) == SAdd(s, {RuleTarget(s, klass, definition)})

\* faulty variant: the rule and the cardinality target are emitted for an
\* empty tag list too
add_tags_Unguarded(s, klass, definition) ==
    TargetRule(
        CardinalityShape(
            TagConditions(SAdd(GAdd(s, TagStatements(klass, definition)),
                               RuleStatements(klass)),
                          klass, TagRuleOf(klass), definition),
            definition),
        klass, definition)

add_tags(s, klass, definition) ==
    IF Len(definition) = 0 THEN s
    ELSE LET s1 == GAdd(s, TagStatements(klass, definition))
             s2 == SAdd(s1, RuleStatements(klass))
             s3 == TagConditions(s2, klass, TagRuleOf(klass), definition)
         IN TargetRule(CardinalityShape(s3, definition), klass, definition)

----------------------------------------------------------------------------
(* rdflib's Collection(G, head, items), as the compiler uses it: the items *)
(* become an rdf:first / rdf:rest list that starts at head                 *)

RECURSIVE CollectionAppend(_, _, _)
CollectionAppend(s, end, items) ==
    IF items = << >> THEN GAdd(s, {<<end, RDF("rest"), RDF("nil")>>})
    ELSE IF \E t \in s.G : t[1] = end /\ t[2] = RDF("first")
         THEN LET nxt == BNodeAnon(s.bnodes + 1)
              IN CollectionAppend(
                     GAdd([s EXCEPT !.bnodes = @ + 1],
                          {<<end, RDF("rest"), nxt>>,
                           <<nxt, RDF("first"), Head(items)>>}),
                     nxt, Tail(items))
         ELSE CollectionAppend(GAdd(s, {<<end, RDF("first"), Head(items)>>}),
                               end, Tail(items))

Collection(s, head, items) == CollectionAppend(s, head, items)

----------------------------------------------------------------------------
(* Definitions are ordered mappings: sequences of <<key, definition>>.     *)
(* A pass-through pair is [p, list, v]: predicate, whether the value is a  *)
(* list, and the value(s).                                                 *)

Pair(p, v) == [p |-> p, list |-> FALSE, v |-> <<v>>]

PairList(p, vs) == [p |-> p, list |-> TRUE, v |-> vs]

\* the statements one pass-through pair yields on item
PairStatements(item, pair) == {<<item, pair.p, pv>> : pv \in Range(pair.v)}

\* add_relationships(item, propdefs)
add_relationships(s, item, propdefs) ==
    GAdd(s, UNION {PairStatements(item, propdefs[j]) : j \in 1..Len(propdefs)})

\* defn.get(key, default) over the pass-through pairs
GetPair(pairs, key, default) ==
    IF \E j \in 1..Len(pairs) : pairs[j].p = key
    THEN LET j == CHOOSE j \in 1..Len(pairs) : pairs[j].p = key
         IN pairs[j].v[1]
    ELSE default

----------------------------------------------------------------------------
(* define_constraints *)

RECURSIVE ClassFragments(_, _, _)
\* lines 351-355: one fresh fragment per allowed class, in the declared order
ClassFragments(s, values, acc) ==
    IF values = << >> THEN [s |-> s, nodes |-> acc]
    ELSE LET pvnode == BNodeAnon(s.bnodes + 1)
         IN ClassFragments(
                GAdd([s EXCEPT !.bnodes = @ + 1],
                     {<<pvnode, SH("class"), Head(values)>>}),
                Tail(values), Append(acc, pvnode))

\* the items of seq, last to first
Reversed(seq) == [j \in 1..Len(seq) |-> seq[Len(seq) + 1 - j]]

\* faulty variant: the fragments are listed last to first
FragmentList_Reversed(f, head) == Collection(f.s, head, Reversed(f.nodes))

\* lines 356 and 624: the fragments f.nodes become the list that starts at head
FragmentList(f, head) == Collection(f.s, head, f.nodes)

\* lines 341-358: one constraint; allowed is [kind, v]
define_constraint(s, classname, property_name, allowed) ==
    LET pnode == BNodeAnon(s.bnodes + 1)
        onode == BNodeAnon(s.bnodes + 2)
        s1 == GAdd([s EXCEPT !.bnodes = @ + 2],
                   {<<classname, A, SH("NodeShape")>>,
                    <<classname, SH("property"), pnode>>,
                    <<pnode, SH("path"), property_name>>})
    IN CASE allowed.kind = "uri" ->
                GAdd(s1, {<<pnode, SH("class"), allowed.v[1]>>})
         [] allowed.kind = "list" ->
                FragmentList(ClassFragments(GAdd(s1, {<<pnode, SH("or"), onode>>}),
                                            allowed.v, << >>),
                             onode)
         [] OTHER -> [s1 EXCEPT !.raised = TRUE]

RECURSIVE define_constraints(_, _, _)
define_constraints(s, constraints, classname) ==
    IF s.raised \/ constraints = << >> THEN s
    ELSE define_constraints(
             define_constraint(s, classname, Head(constraints)[1],
                               Head(constraints)[2]),
             Tail(constraints), classname)

----------------------------------------------------------------------------
(* define_classes *)

\* line 281: the label derived from the class name
ClassLabel(classname) == Literal(Replace(LocalName(classname), "_", " "))

\* lines 283-284: the label is added when the presence query finds none
AssignLabel(s, classname) ==
    IF ~has_label(s, classname)
    THEN GAdd(s, {<<classname, RDFS("label"), ClassLabel(classname)>>})
    ELSE s

\* lines 322-331: the remaining pairs of the definition, copied verbatim
CopyClassPairs(s, classname, pairs) ==
    IF s.raised THEN s
    ELSE GAdd(s, UNION {PairStatements(classname, pairs[j]) : j \in 1..Len(pairs)})

\* lines 285-286: the class is an instance of itself
PunClass(s, classname, pun_classes) ==
    IF pun_classes THEN GAdd(s, {<<classname, A, classname>>}) ELSE s

\* lines 290-293: a class without tags is reported
WarnNoTags(s, taglist) ==
    IF Len(taglist) = 0 THEN [s EXCEPT !.warnings = @ + 1] ELSE s

\* faulty variant: the "parents" of a class are not linked
AddParents_Skipped(s, classname, parents) == s

\* lines 304-307: the further parents of the class
AddParents(s, classname, parents) ==
    IF s.raised THEN s
    ELSE GAdd(s, {<<classname, RDFS("subClassOf"), p>> : p \in Range(parents)})

RECURSIVE define_classes(_, _, _, _)
RECURSIVE define_class(_, _, _, _, _)
\* lines 275-331: the body of the loop, for one class
define_class(s, name, defn, parent, pun_classes) ==
    LET classname == BRICK(name)
        s1 == GAdd(s, {<<classname, A, OWL("Class")>>,
                       <<classname, RDFS("subClassOf"), parent>>})
        s2 == AssignLabel(s1, classname)
        s3 == PunClass(s2, classname, pun_classes)
        taglist == defn.tags
        s4 == WarnNoTags(s3, taglist)
        s5 == add_tags(s4, classname, taglist)
        s6 == define_classes(s5, defn.subclasses, classname, FALSE)
        s7 == AddParents(s6, classname, defn.parents)
        s8 == define_constraints(s7, defn.constraints, classname)
    IN CopyClassPairs(s8, classname, defn.other)

define_classes(s, definitions, parent, pun_classes) ==
    IF s.raised \/ definitions = << >> THEN s
    ELSE define_classes(
             define_class(s, Head(definitions)[1], Head(definitions)[2],
                          parent, pun_classes),
             Tail(definitions), parent, pun_classes)

----------------------------------------------------------------------------
(* define_concept_hierarchy *)

None == Node("none", << >>, 0)

\* lines 236-238: the declared label, else the one derived from the name
ConceptLabel(concept, defn) ==
    GetPair(defn.other, RDFS("label"),
            Literal(Replace(LocalName(concept), "_", " ")))

\* lines 226-229: the concept and its broader concept, both ways
BroaderEdges(s, concept, broader) ==
    IF broader # None
    THEN GAdd(s, {<<concept, SKOS("broader"), broader>>,
                  <<broader, SKOS("narrower"), concept>>})
    ELSE s

\* lines 230-233: the concept and its related concept, both ways
RelatedEdges(s, concept, related) ==
    IF related # None
    THEN GAdd(s, {<<concept, SKOS("related"), related>>,
                  <<related, SKOS("related"), concept>>})
    ELSE s

\* lines 234-238: the label is added when the presence query finds none
AssignConceptLabel(s, concept, defn) ==
    IF ~has_label(s, concept)
    THEN GAdd(s, {<<concept, RDFS("label"), ConceptLabel(concept, defn)>>})
    ELSE s

RECURSIVE define_concept_hierarchy(_, _, _, _, _)
RECURSIVE define_concept(_, _, _, _, _, _)
\* lines 224-261: the body of the loop, for one concept
define_concept(s, name, defn, typeclasses, broader, related) ==
    LET concept == BRICK(name)
        s1 == GAdd(s, {<<concept, A, tc>> : tc \in Range(typeclasses)})
        s2 == BroaderEdges(s1, concept, broader)
        s3 == RelatedEdges(s2, concept, related)
        s4 == AssignConceptLabel(s3, concept, defn)
        s5 == define_concept_hierarchy(s4, defn.narrower, typeclasses, concept, None)
        s6 == define_concept_hierarchy(s5, defn.related, typeclasses, None, concept)
        s7 == GAdd(s6, {<<concept, SKOS("broader"), p>> : p \in Range(defn.parents)})
    IN add_relationships(s7, concept, defn.other)

define_concept_hierarchy(s, definitions, typeclasses, broader, related) ==
    IF definitions = << >> THEN s
    ELSE define_concept_hierarchy(
             define_concept(s, Head(definitions)[1], Head(definitions)[2],
                            typeclasses, broader, related),
             Tail(definitions), typeclasses, broader, related)

----------------------------------------------------------------------------
(* handle_deprecations: md is [keys, subClassOf, narrower, version,         *)
(* mitigation_message, replace_with]; keys are the keys md declares        *)

\* lines 789-792: the label of a deprecated term
DeprecationLabel(s, deprecated_term) ==
    GAdd(s, {<<deprecated_term, RDFS("label"),
               Literal(Replace(LocalName(deprecated_term), "_", " "))>>})

\* faulty variant: the narrower-concept edges copied next to the subclass edges
DeprecationEdges_Both(s, deprecated_term, md) ==
    GAdd(s, {<<deprecated_term, RDFS("subClassOf"), c>>
             : c \in IF "subClassOf" \in md.keys THEN Range(md.subClassOf) ELSE {}}
            \cup {<<deprecated_term, SKOS("narrower"), c>>
                  : c \in IF "narrower" \in md.keys THEN Range(md.narrower) ELSE {}})

\* lines 794-807: the subclass edges, else the narrower-concept edges
DeprecationEdges(s, deprecated_term, md) ==
    IF "subClassOf" \in md.keys
    THEN GAdd(s, {<<deprecated_term, RDFS("subClassOf"), c>>
                  : c \in Range(md.subClassOf)})
    ELSE IF "narrower" \in md.keys
         THEN GAdd(s, {<<deprecated_term, SKOS("narrower"), c>>
                       : c \in Range(md.narrower)})
         ELSE s

\* md[key] of lines 808-816: a missing key raises KeyError
DeprecationMetadata(s, deprecated_term, md, key, predicate, value) ==
    IF s.raised THEN s
    ELSE IF key \notin md.keys THEN [s EXCEPT !.raised = TRUE]
         ELSE GAdd(s, {<<deprecated_term, predicate, value>>})

\* lines 787-816: the body of the loop, for one deprecated term
handle_deprecation(s, deprecated_term, md) ==
    LET s1 == GAdd(s, {<<deprecated_term, A, OWL("Class")>>,
                       <<deprecated_term, OWL("deprecated"), LiteralTrue>>})
        s2 == DeprecationLabel(s1, deprecated_term)
        s3 == DeprecationEdges(s2, deprecated_term, md)
        s4 == DeprecationMetadata(s3, deprecated_term, md, "version",
                                  BRICK(<<"deprecatedInVersion">>), md.version)
        s5 == DeprecationMetadata(s4, deprecated_term, md, "mitigation_message",
                                  BRICK(<<"deprecationMitigationMessage">>),
                                  md.mitigation_message)
    IN DeprecationMetadata(s5, deprecated_term, md, "replace_with",
                           BRICK(<<"isReplacedBy">>), md.replace_with)

RECURSIVE handle_deprecations(_, _)
handle_deprecations(s, deprecations) ==
    IF s.raised \/ deprecations = << >> THEN s
    ELSE handle_deprecations(
             handle_deprecation(s, Head(deprecations)[1], Head(deprecations)[2]),
             Tail(deprecations))

----------------------------------------------------------------------------
(* define_relationships: a definition is [types, subproperties, keys,      *)
(* range, datatype, domain, other]; keys are those of "range", "datatype", *)
(* "domain" the definition declares; range is [kind, v] with kind "none",  *)
(* "uri" or "list"; domain is [list, v]                                    *)

\* line 611: the name of the property shape of a relationship
RelationshipShape(prop) == BSH(LocalName(prop) \o <<"Shape">>)

\* faulty variant: every class of a list range constrains the shape on its own
RelationshipRange_Independent(s, propshape, propdefn) ==
    IF "range" \notin propdefn.keys THEN s
    ELSE GAdd(s, {<<propshape, SH("class"), cls>> : cls \in Range(propdefn.range.v)})

\* lines 614-626: the class constraint, or the disjunction of class constraints
RelationshipRange(s, propshape, propdefn) ==
    CASE "range" \notin propdefn.keys -> s
      [] propdefn.range.kind = "list" ->
            FragmentList(
                ClassFragments(
                    GAdd([s EXCEPT !.bnodes = @ + 1],
                         {<<propshape, SH("or"), BNodeAnon(s.bnodes + 1)>>}),
                    propdefn.range.v, << >>),
                BNodeAnon(s.bnodes + 1))
      [] propdefn.range.kind = "uri" ->
            GAdd(s, {<<propshape, SH("class"), propdefn.range.v[1]>>})
      [] OTHER -> s

\* lines 630-633 (and 461-464, 567-570): a datatype, or the numeric disjunction
DatatypeStatement(shape, dtype) ==
    IF dtype = BSH(<<"NumericValue">>)
    THEN <<shape, SH("or"), BSH(<<"NumericValue">>)>>
    ELSE <<shape, SH("datatype"), dtype>>

\* lines 628-633: the datatype of the values
RelationshipDatatype(s, propshape, propdefn) ==
    IF "datatype" \in propdefn.keys
    THEN GAdd(s, {DatatypeStatement(propshape, propdefn.datatype)})
    ELSE s

\* faulty variant: the property shape is attached to the first subject class only
RelationshipDomain_First(s, propshape, propdefn) ==
    IF "domain" \in propdefn.keys /\ propdefn.domain.v # << >>
    THEN GAdd(s, {<<propdefn.domain.v[1], SH("property"), propshape>>})
    ELSE s

\* lines 635-641: the property shape is attached to every subject class
RelationshipDomain(s, propshape, propdefn) ==
    IF "domain" \in propdefn.keys
    THEN GAdd(s, {<<domain, SH("property"), propshape>>
                  : domain \in Range(propdefn.domain.v)})
    ELSE s

RECURSIVE define_relationships(_, _, _)
RECURSIVE define_relationship(_, _, _, _)
\* lines 592-648: the body of the loop, for one relationship
define_relationship(s, name, propdefn, superprop) ==
    LET prop == BRICK(name)
        s1 == IF superprop # None
              THEN GAdd(s, {<<prop, RDFS("subPropertyOf"), superprop>>})
              ELSE s
        s2 == GAdd(s1, {<<prop, RDFS("subPropertyOf"), BRICK(<<"Relationship">>)>>}
                       \cup {<<prop, A, ty>> : ty \in Range(propdefn.types)})
        s3 == define_relationships(s2, propdefn.subproperties, prop)
        propshape == RelationshipShape(prop)
        s4 == GAdd(s3, {<<propshape, A, SH("PropertyShape")>>,
                        <<propshape, SH("path"), prop>>})
        s5 == RelationshipRange(s4, propshape, propdefn)
        s6 == RelationshipDatatype(s5, propshape, propdefn)
        s7 == RelationshipDomain(s6, propshape, propdefn)
    IN add_relationships(s7, prop, propdefn.other)

define_relationships(s, definitions, superprop) ==
    IF definitions = << >> THEN s
    ELSE define_relationships(
             define_relationship(s, Head(definitions)[1], Head(definitions)[2],
                                 superprop),
             Tail(definitions), superprop)

----------------------------------------------------------------------------
(* define_entity_properties: a definition is [keys, property_of, node,     *)
(* label, subproperties, other]; keys are those of "property_of", "node",  *)
(* "label", "subproperties" the definition declares                        *)

\* line 383: the name of the property shape of an entity property
EntityPropertyShape(entprop) == BSH(<<"has">> \o LocalName(entprop) \o <<"Shape">>)

\* lines 383-402: the property shape, its attachments, the remaining pairs
EntityPropertyStatements(s, entprop, defn) ==
    IF s.raised THEN s
    ELSE LET pshape == EntityPropertyShape(entprop)
         IN add_relationships(
                GAdd(s,
                  {<<pshape, A, SH("PropertyShape")>>,
                   <<pshape, SH("path"), entprop>>,
                   <<pshape, SH("node"), defn.node>>,
                   <<pshape, RDFS("label"),
                     Literal(<<"has", " ">> \o defn.label.n \o <<" ", "property">>)>>}
                  \cup {<<shape, SH("property"), pshape>>
                        : shape \in Range(defn.property_of)}
                  \cup {<<entprop, RDFS("label"), defn.label>>}),
                entprop, defn.other)

RECURSIVE define_entity_properties(_, _, _)
RECURSIVE define_entity_property(_, _, _, _)
\* lines 368-402: the body of the loop, for one entity property
define_entity_property(s, entprop, defn, superprop) ==
    IF ~({"property_of", "node", "label"} \subseteq defn.keys)
    THEN [s EXCEPT !.raised = TRUE]
    ELSE LET s1 == GAdd(s, {<<entprop, A, BRICK(<<"EntityProperty">>)>>}
                           \cup IF superprop # None
                                THEN {<<entprop, RDFS("subPropertyOf"), superprop>>}
                                ELSE {})
         IN EntityPropertyStatements(
                define_entity_properties(
                    s1,
                    IF "subproperties" \in defn.keys THEN defn.subproperties
                                                      ELSE << >>,
                    entprop),
                entprop, defn)

define_entity_properties(s, definitions, superprop) ==
    IF s.raised \/ definitions = << >> THEN s
    ELSE define_entity_properties(
             define_entity_property(s, Head(definitions)[1], Head(definitions)[2],
                                    superprop),
             Tail(definitions), superprop)

----------------------------------------------------------------------------
(* define_shape_property_property: definitions is [hasOr, or, props];      *)
(* props is an ordered mapping path -> requirement; a requirement is       *)
(* [keys, optional, datatype, values, other], keys being those of          *)
(* "optional", "datatype", "values" it declares.  A raw value is [py, n,   *)
(* i]: its Python type and its text or number.                             *)

\* Literal(x): the datatype follows the Python type
LiteralOf(raw) ==
    Node(CASE raw.py = "str" -> "lit" [] raw.py = "int" -> "int" [] OTHER -> "double",
         raw.n, raw.i)

\* Literal(x, datatype=dt)
LiteralTyped(kind, raw) == Node(kind, raw.n, raw.i)

RECURSIVE MapSeq(_, _)
MapSeq(F(_), seq) ==
    IF seq = << >> THEN << >> ELSE <<F(Head(seq))>> \o MapSeq(F, Tail(seq))

\* lines 428-436: the rows of the lookup of an existing property shape
ReuseQuery(graph, prop_name) ==
    {t[1] : t \in {t \in graph :
                      /\ t[2] = SH("property")
                      /\ t[3] = t[1]
                      /\ <<t[1], SH("path"), prop_name>> \in graph
                      /\ ~\E m \in graph : m[1] = t[1] /\ m[2] = SH("minCount")
                      /\ ~\E m \in graph : m[1] = t[1] /\ m[2] = SH("maxCount")}}

\* line 427: the requirement is optional and declares nothing else
OptionalOnly(prop_defn) ==
    /\ "optional" \in prop_defn.keys
    /\ prop_defn.optional
    /\ Cardinality(prop_defn.keys) + Len(prop_defn.other) = 1

\* lines 452-456: a minimum count of 1 unless the requirement is optional
MinCountStatements(ps, prop_defn) ==
    IF "optional" \in prop_defn.keys
    THEN IF ~prop_defn.optional THEN {<<ps, SH("minCount"), LiteralInt(1)>>} ELSE {}
    ELSE {<<ps, SH("minCount"), LiteralInt(1)>>}

\* lines 466-469: the enumerated values of the requirement
RequirementValues(s, ps, prop_defn) ==
    Collection(GAdd([s EXCEPT !.bnodes = @ + 1],
                    {<<ps, SH("in"), BNodeAnon(s.bnodes + 1)>>,
                     <<ps, SH("minCount"), LiteralInt(1)>>}),
               BNodeAnon(s.bnodes + 1),
               MapSeq(LiteralOf, prop_defn.values))

\* lines 458-473: the datatype, else the values, of the requirement, and
\* the pairs that remain
RequirementStatements(s, ps, prop_name, prop_defn) ==
    IF "datatype" \in prop_defn.keys
    THEN \* a "values" key left in place is copied with a str predicate
         IF "values" \in prop_defn.keys
         THEN [GAdd(s, {<<prop_name, A, OWL("DatatypeProperty")>>,
                        DatatypeStatement(ps, prop_defn.datatype)})
                  EXCEPT !.raised = TRUE]
         ELSE add_relationships(
                  GAdd(s, {<<prop_name, A, OWL("DatatypeProperty")>>,
                           DatatypeStatement(ps, prop_defn.datatype)}),
                  ps, prop_defn.other)
    ELSE IF "values" \in prop_defn.keys
         THEN add_relationships(
                  GAdd(RequirementValues(s, ps, prop_defn),
                       {<<prop_name, A, OWL("ObjectProperty")>>}),
                  ps, prop_defn.other)
         ELSE add_relationships(
                  GAdd(s, {<<prop_name, A, OWL("ObjectProperty")>>}),
                  ps, prop_defn.other)

\* lines 441-473: a new property shape for the requirement
NewPropertyShape(s, shape_name, prop_name, prop_defn) ==
    RequirementStatements(
        GAdd([s EXCEPT !.bnodes = @ + 1],
             {<<shape_name, SH("property"), BNodeAnon(s.bnodes + 1)>>,
              <<BNodeAnon(s.bnodes + 1), A, SH("PropertyShape")>>,
              <<BNodeAnon(s.bnodes + 1), SH("path"), prop_name>>}
             \cup MinCountStatements(BNodeAnon(s.bnodes + 1), prop_defn)),
        BNodeAnon(s.bnodes + 1), prop_name, prop_defn)

\* lines 422-473: the body of the loop, for one requirement
ShapeProperty(s, shape_name, prop_name, prop_defn) ==
    IF OptionalOnly(prop_defn) /\ ReuseQuery(s.G, prop_name) # {}
    THEN \* the row binds no ?x: G.add is handed None as the object
         [s EXCEPT !.raised = TRUE]
    ELSE NewPropertyShape(s, shape_name, prop_name, prop_defn)

RECURSIVE ShapeProperties(_, _, _)
ShapeProperties(s, shape_name, props) ==
    IF s.raised \/ props = << >> THEN s
    ELSE ShapeProperties(
             ShapeProperty(s, shape_name, Head(props)[1], Head(props)[2]),
             shape_name, Tail(props))

\* lines 419-421: the alternatives f.nodes become the list of the disjunction
OrList(f, shape_name) ==
    IF f.s.raised THEN f.s
    ELSE Collection(GAdd([f.s EXCEPT !.bnodes = @ + 1],
                         {<<shape_name, SH("or"), BNodeAnon(f.s.bnodes + 1)>>}),
                    BNodeAnon(f.s.bnodes + 1), f.nodes)

RECURSIVE define_shape_property_property(_, _, _)
RECURSIVE OrAlternatives(_, _, _)
\* lines 415-418: one fresh node shape per alternative
OrAlternatives(s, alternatives, acc) ==
    IF s.raised \/ alternatives = << >> THEN [s |-> s, nodes |-> acc]
    ELSE LET or_node_shape == BNodeAnon(s.bnodes + 1)
         IN OrAlternatives(
                define_shape_property_property([s EXCEPT !.bnodes = @ + 1],
                                               or_node_shape, Head(alternatives)),
                Tail(alternatives), Append(acc, or_node_shape))

define_shape_property_property(s, shape_name, definitions) ==
    ShapeProperties(
        IF definitions.hasOr
        THEN OrList(OrAlternatives(s, definitions.or, << >>), shape_name)
        ELSE s,
        shape_name, definitions.props)

----------------------------------------------------------------------------
(* units_for_quantity.  get_units (bricksrc.quantities) reads the units of *)
(* a quantity from the QUDT vocabulary: qudt maps a quantity to that set.  *)
(* list(set) enumerates the set in the order of the process's string       *)
(* hashes: order is a sequence over all units, and the list is the units   *)
(* of the set as they come in order.                                       *)

\* the units the QUDT data gives for quantity
get_units(qudt, quantity) ==
    IF quantity \in DOMAIN qudt THEN qudt[quantity] ELSE {}

RECURSIVE Select(_, _)
Select(order, set) ==
    IF order = << >> THEN << >>
    ELSE (IF Head(order) \in set THEN <<Head(order)>> ELSE << >>)
         \o Select(Tail(order), set)

\* list(a_set)
ListOfSet(set, order) == Select(order, set)

units_for_quantity(s, quantity, qudt, order) ==
    LET brick_units == {t[3] : t \in {t \in s.G : /\ t[1] = quantity
                                                  /\ t[2] = QUDT("applicableUnit")}}
        qudt_units == get_units(qudt, quantity)
    IN ListOfSet(brick_units \cup qudt_units, order)

----------------------------------------------------------------------------
(* define_shape_properties: a definition is [keys, values, units,          *)
(* unitsFromQuantity, datatype, properties, range]; keys are the keys it   *)
(* declares                                                                *)

\* lines 519-536: the literal subtype follows the first element's type
EnumerationKind(vals) ==
    CASE vals[1].py = "str" -> "xsd:string"
      [] vals[1].py = "int" -> "int"
      [] vals[1].py = "float" -> "xsd:decimal"
      [] OTHER -> "lit"

\* lines 503-507: the value property shape with its occurrence counts
ValueShapeStatements(shape_name, brick_value_shape) ==
    {<<shape_name, SH("property"), brick_value_shape>>,
     <<brick_value_shape, A, SH("PropertyShape")>>,
     <<brick_value_shape, SH("path"), BRICK(<<"value">>)>>,
     <<brick_value_shape, SH("minCount"), LiteralInt(1)>>,
     <<brick_value_shape, SH("maxCount"), LiteralInt(1)>>}

\* lines 518-536: the literals of the enumeration, typed after the first
EnumerationList(s, enumeration, vals) ==
    IF vals = << >> THEN [s EXCEPT !.raised = TRUE]
    ELSE LET kind == EnumerationKind(vals)
             Lit(raw) == LiteralTyped(kind, raw)
         IN Collection(s, enumeration, MapSeq(Lit, vals))

\* lines 511-536: the enumerated literal set
ShapeValues(s, shape_name, brick_value_shape, defn) ==
    IF s.raised \/ "values" \notin defn.keys THEN s
    ELSE EnumerationList(
             GAdd([s EXCEPT !.bnodes = @ + 1],
                  {<<shape_name, SH("property"), brick_value_shape>>,
                   <<brick_value_shape, A, SH("PropertyShape")>>,
                   <<brick_value_shape, SH("path"), BRICK(<<"value">>)>>,
                   <<brick_value_shape, SH("in"), BNodeAnon(s.bnodes + 1)>>,
                   <<brick_value_shape, SH("minCount"), LiteralInt(1)>>}),
             BNodeAnon(s.bnodes + 1), defn.values)

\* lines 538-545 and 548-555: a unit property shape with its enumeration
UnitShape(s, shape_name) ==
    LET v == BNodeAnon(s.bnodes + 1)
        enumeration == BNodeAnon(s.bnodes + 2)
    IN GAdd([s EXCEPT !.bnodes = @ + 2],
            {<<shape_name, SH("property"), v>>,
             <<v, A, SH("PropertyShape")>>,
             <<v, SH("path"), BRICK(<<"hasUnit">>)>>,
             <<v, SH("in"), enumeration>>,
             <<v, SH("minCount"), LiteralInt(1)>>,
             <<v, SH("maxCount"), LiteralInt(1)>>})

\* lines 537-546: the fixed unit set
ShapeUnits(s, shape_name, defn) ==
    IF s.raised \/ "units" \notin defn.keys THEN s
    ELSE Collection(UnitShape(s, shape_name), BNodeAnon(s.bnodes + 2), defn.units)

\* lines 556-558: the units of the quantity, which must exist
QuantityUnitList(s, enumeration, quantity, qudt, order) ==
    IF ~(Len(units_for_quantity(s, quantity, qudt, order)) > 0)
    THEN [s EXCEPT !.raised = TRUE]
    ELSE Collection(s, enumeration, units_for_quantity(s, quantity, qudt, order))

\* lines 547-558: the unit set derived from a quantity
ShapeUnitsFromQuantity(s, shape_name, defn, qudt, order) ==
    IF s.raised \/ "unitsFromQuantity" \notin defn.keys THEN s
    ELSE QuantityUnitList(UnitShape(s, shape_name), BNodeAnon(s.bnodes + 2),
                          defn.unitsFromQuantity, qudt, order)

RangeFacets == {"minExclusive", "minInclusive", "maxExclusive", "maxInclusive"}

RECURSIVE ShapeRange(_, _, _)
\* lines 572-581: the facets of the value range
ShapeRange(s, brick_value_shape, range) ==
    IF s.raised \/ range = << >> THEN s
    ELSE IF Head(range)[1] \notin RangeFacets
         THEN [s EXCEPT !.raised = TRUE]
         ELSE ShapeRange(
                  GAdd(s, {<<brick_value_shape, SH(Head(range)[1]),
                             LiteralOf(Head(range)[2])>>}),
                  brick_value_shape, Tail(range))

\* lines 572-581: the range of the value, when one is declared
ValueRange(s, brick_value_shape, defn) ==
    IF "range" \in defn.keys THEN ShapeRange(s, brick_value_shape, defn.range)
    ELSE s

\* lines 559-581: the sub-properties, else the datatype and its range
ShapeTail(s, shape_name, brick_value_shape, defn) ==
    IF s.raised THEN s
    ELSE IF "properties" \in defn.keys
         THEN define_shape_property_property(s, shape_name, defn.properties)
         ELSE IF "datatype" \in defn.keys
              THEN ValueRange(
                       GAdd(s,
                         {<<shape_name, SH("property"), brick_value_shape>>,
                          <<brick_value_shape, A, SH("PropertyShape")>>,
                          <<brick_value_shape, SH("path"), BRICK(<<"value">>)>>,
                          DatatypeStatement(brick_value_shape, defn.datatype),
                          <<brick_value_shape, SH("minCount"), LiteralInt(1)>>}),
                       brick_value_shape, defn)
              ELSE s

\* lines 495-581: the body of the loop, for one value shape; the two
\* BNode() of lines 501 and 509 come first
define_shape(s, shape_name, defn, qudt, order) ==
    LET brick_value_shape == BNodeAnon(s.bnodes + 1)
        s1 == GAdd([s EXCEPT !.bnodes = @ + 2],
                   {<<shape_name, A, SH("NodeShape")>>,
                    <<shape_name, A, OWL("Class")>>,
                    <<shape_name, A, BRICK(<<"EntityPropertyValue">>)>>,
                    <<shape_name, RDFS("subClassOf"), BSH(<<"ValueShape">>)>>}
                   \cup IF defn.keys \cap {"values", "units", "unitsFromQuantity",
                                           "datatype"} # {}
                        THEN ValueShapeStatements(shape_name, brick_value_shape)
                        ELSE {})
        s2 == ShapeValues(s1, shape_name, brick_value_shape, defn)
        s3 == ShapeUnits(s2, shape_name, defn)
        s4 == ShapeUnitsFromQuantity(s3, shape_name, defn, qudt, order)
    IN ShapeTail(s4, shape_name, brick_value_shape, defn)

RECURSIVE define_shape_properties(_, _, _, _)
define_shape_properties(s, definitions, qudt, order) ==
    IF s.raised \/ definitions = << >> THEN s
    ELSE define_shape_properties(
             define_shape(s, Head(definitions)[1], Head(definitions)[2], qudt, order),
             Tail(definitions), qudt, order)

----------------------------------------------------------------------------
(* The module-level script, lines 819-986, step by step on the state s.    *)
(* The definition mappings it compiles are imported from bricksrc: d is    *)
(* the record of them, and d.qudt the QUDT vocabulary get_units reads.     *)

\* lines 833-839
roots ==
    LET Root(tags) ==
            [tags |-> tags, subclasses |-> << >>, parents |-> << >>,
             constraints |-> << >>, other |-> << >>]
    IN <<<<<<"Equipment">>, Root(<<TAG(<<"Equipment">>)>>)>>,
         <<<<"Location">>, Root(<<TAG(<<"Location">>)>>)>>,
         <<<<"Point">>, Root(<<TAG(<<"Point">>)>>)>>,
         <<<<"Measurable">>, Root(<< >>)>>,
         <<<<"Collection">>, Root(<<TAG(<<"Collection">>)>>)>>>>

\* lines 829-841: the root classes
DeclareRootClasses(s) ==
    LET s1 == GAdd(s, {<<BRICK(<<"Class">>), A, OWL("Class")>>,
                       <<BRICK(<<"Entity">>), A, OWL("Class")>>,
                       <<BRICK(<<"Tag">>), A, OWL("Class")>>})
        s2 == define_classes(s1, roots, BRICK(<<"Class">>), FALSE)
    IN define_classes(s2, roots, BRICK(<<"Entity">>), FALSE)

\* lines 845-859: the relationships
DefineProperties(s, d) ==
    LET s1 == GAdd(s,
                {<<BRICK(<<"Relationship">>), A, OWL("ObjectProperty")>>,
                 <<BRICK(<<"Relationship">>), RDFS("label"),
                   Literal(<<"Relationship">>)>>,
                 <<BRICK(<<"Relationship">>), SKOS("definition"),
                   Literal(<<"Super-property of all Brick relationships between entities (Equipment, Location, Point)">>)>>})
        s2 == define_relationships(s1, d.relationships, None)
    IN GAdd(s2, {<<URI("vcard", <<"hasAddress">>), A, OWL("ObjectProperty")>>,
                 <<URI("vcard", <<"Address">>), A, OWL("Class")>>})

RECURSIVE DefineEach(_, _)
\* consecutive define_classes calls, each <<definitions, parent>>
DefineEach(s, classcalls) ==
    IF classcalls = << >> THEN s
    ELSE DefineEach(define_classes(s, Head(classcalls)[1], Head(classcalls)[2], FALSE),
                    Tail(classcalls))

\* line 871
pointclasses ==
    {<<"Alarm">>, <<"Status">>, <<"Command">>, <<"Setpoint">>, <<"Sensor">>,
     <<"Parameter">>}

\* lines 872-874: the point classes are pairwise disjoint
DisjointPoints(s) ==
    IF s.raised THEN s
    ELSE GAdd(s, {<<BRICK(pr[1]), OWL("disjointWith"), BRICK(pr[2])>>
                  : pr \in {pr \in pointclasses \X pointclasses : pr[1] # pr[2]}})

\* lines 863-874: the Point subclasses, made disjoint
DefinePointSubclasses(s, d) ==
    LET point == BRICK(<<"Point">>)
        s1 == DefineEach(s, <<<<d.setpoint_definitions, point>>,
                              <<d.sensor_definitions, point>>,
                              <<d.alarm_definitions, point>>,
                              <<d.status_definitions, point>>,
                              <<d.command_definitions, point>>,
                              <<d.parameter_definitions, point>>>>)
    IN DisjointPoints(s1)

\* lines 878-885: the other root class structures
DefineOtherClasses(s, d) ==
    DefineEach(s,
        <<<<d.location_subclasses, BRICK(<<"Location">>)>>,
          <<d.equipment_subclasses, BRICK(<<"Equipment">>)>>,
          <<d.collection_classes, BRICK(<<"Collection">>)>>,
          <<d.hvac_subclasses, BRICK(<<"HVAC", "_", "Equipment">>)>>,
          <<d.hvac_valve_subclasses, BRICK(<<"HVAC", "_", "Equipment">>)>>,
          <<d.valve_subclasses, BRICK(<<"Equipment">>)>>,
          <<d.security_subclasses, BRICK(<<"Security", "_", "Equipment">>)>>,
          <<d.safety_subclasses, BRICK(<<"Safety", "_", "Equipment">>)>>>>)

\* lines 889-921: the Measurable hierarchy, substances and quantities
DefineMeasurable(s, d) ==
    LET quantity == BRICK(<<"Quantity">>)
        substance == BRICK(<<"Substance">>)
        measurable == BRICK(<<"Measurable">>)
        s1 == GAdd(s,
                {<<measurable, RDFS("subClassOf"), BRICK(<<"Entity">>)>>,
                 <<quantity, RDFS("subClassOf"), URI("sosa", <<"ObservableProperty">>)>>,
                 <<quantity, RDFS("subClassOf"), QUDT("QuantityKind")>>,
                 <<URI("sosa", <<"ObservableProperty">>), A, OWL("Class")>>,
                 <<quantity, RDFS("subClassOf"), measurable>>,
                 <<quantity, A, OWL("Class")>>,
                 <<quantity, RDFS("label"), Literal(<<"Quantity">>)>>,
                 <<quantity, RDFS("subClassOf"), SKOS("Concept")>>,
                 <<substance, RDFS("subClassOf"), URI("sosa", <<"FeatureOfInterest">>)>>,
                 <<URI("sosa", <<"FeatureOfInterest">>), A, OWL("Class")>>,
                 <<substance, RDFS("subClassOf"), measurable>>,
                 <<substance, A, OWL("Class")>>,
                 <<substance, RDFS("label"), Literal(<<"Substance">>)>>})
        s2 == define_concept_hierarchy(s1, d.substances, <<substance>>, None, None)
    IN define_concept_hierarchy(s2, d.quantity_definitions, <<quantity>>, None, None)

\* lines 925-942: the two CONSTRUCT queries build graphs that are dropped
TaxonomyClosure(s) == s

RECURSIVE BroaderPlus(_, _, _)
\* the ?subquant of ?subquant skos:broader+ quantity, found so far being S
BroaderPlus(graph, quantity, S) ==
    LET more == {t[1] : t \in {t \in graph : /\ t[2] = SKOS("broader")
                                             /\ t[3] \in S \cup {quantity}}}
    IN IF more \subseteq S THEN S ELSE BroaderPlus(graph, quantity, S \cup more)

\* lines 80-94: the units (of the rows) of the narrower quantities
get_units_brick(s, brick_quantity) ==
    {t[3] : t \in {t \in s.G : /\ t[1] \in BroaderPlus(s.G, brick_quantity, {})
                               /\ t[2] = QUDT("applicableUnit")}}

\* lines 945-950: the rows <<quantity, qudtquant>>
QuantityReferences(s) ==
    {<<t[1], t[3]>> : t \in {t \in s.G :
                               /\ t[2] = BRICK(<<"hasQUDTReference">>)
                               /\ <<t[1], A, BRICK(<<"Quantity">>)>> \in s.G}}

\* lines 961-965: every quantity of res inherits the units of its narrower ones
InheritUnits(s, res) ==
    GAdd(s, UNION {{<<r[1], QUDT("applicableUnit"), unit>>
                    : unit \in get_units_brick(s, r[1])} : r \in res})

\* lines 957-965: the units of QUDT, then those of the narrower quantities
PropagateUnits(s, d) ==
    InheritUnits(
        GAdd(s, UNION {{<<r[1], QUDT("applicableUnit"), unit>>
                        : unit \in get_units(d.qudt, r[2])}
                       : r \in QuantityReferences(s)}),
        QuantityReferences(s))

\* lines 976-981: the entity properties
DefineEntityProps(s, d) ==
    define_entity_properties(
        GAdd(s, {<<BRICK(<<"value">>), SKOS("definition"),
                   Literal(<<"The basic value of an entity property">>)>>,
                 <<BRICK(<<"EntityProperty">>), RDFS("subClassOf"),
                   OWL("ObjectProperty")>>,
                 <<BRICK(<<"EntityProperty">>), A, OWL("Class")>>,
                 <<BRICK(<<"EntityPropertyValue">>), A, OWL("Class")>>,
                 <<BSH(<<"ValueShape">>), A, OWL("Class")>>}),
        d.entity_properties, None)

\* line 982: the value shapes
DefineValueShapes(s, d, order) ==
    define_shape_properties(s, d.shapes, d.qudt, order)

\* lines 984-986: brick:value loses its type, then the deprecations
Deprecate(s, d) ==
    handle_deprecations(
        [s EXCEPT !.G = @ \ {<<BRICK(<<"value">>), A, OWL("ObjectProperty")>>}],
        d.deprecations)

\* faulty variant: the Point subclasses compiled before the relationships
NextStep_ClassesFirst(here) ==
    CASE here = "roots" -> "points"
      [] here = "points" -> "relationships"
      [] here = "relationships" -> "classes"
      [] here = "classes" -> "concepts"
      [] here = "concepts" -> "closure"
      [] here = "closure" -> "units"
      [] here = "units" -> "entity_properties"
      [] here = "entity_properties" -> "shape_properties"
      [] here = "shape_properties" -> "deprecations"
      [] OTHER -> "compiled"

\* lines 819-986: the step of the script that follows the step here
NextStep(here) ==
    CASE here = "roots" -> "relationships"
      [] here = "relationships" -> "points"
      [] here = "points" -> "classes"
      [] here = "classes" -> "concepts"
      [] here = "concepts" -> "closure"
      [] here = "closure" -> "units"
      [] here = "units" -> "entity_properties"
      [] here = "entity_properties" -> "shape_properties"
      [] here = "shape_properties" -> "deprecations"
      [] OTHER -> "compiled"

----------------------------------------------------------------------------
(* Inputs of the bounded model *)

TagX == TAG(<<"x">>)

TagY == TAG(<<"y">>)

Tags == {TagX, TagY}

RECURSIVE SeqsUpTo(_, _)
\* the sequences over S of length at most n
SeqsUpTo(S, n) ==
    IF n = 0 THEN {<< >>}
    ELSE LET shorter == SeqsUpTo(S, n - 1)
         IN shorter \cup {Append(q, e) : q \in shorter, e \in S}

\* the tag lists a class may declare (duplicates included)
TagLists == SeqsUpTo(Tags, MaxTags)

ClassA == BRICK(<<"Fan">>)

ClassB == BRICK(<<"Air", "_", "Fan">>)

TagClasses == {ClassA, ClassB}

ClassC == BRICK(<<"Exhaust", "_", "Fan">>)

UNIT(w) == URI("unit", <<w>>)

QUDTQK(w) == URI("qudtqk", <<w>>)

Units == {UNIT("DEG_C"), UNIT("K")}

\* the orders in which a process may enumerate a set of units
UnitOrders == <<<<UNIT("DEG_C"), UNIT("K")>>, <<UNIT("K"), UNIT("DEG_C")>>>>

----------------------------------------------------------------------------
(* Initial state: the module-level globals, lines 59-68 *)

Globals ==
    /\ G = {}
    /\ shaclGraph = {}
    /\ shacl_tag_property_shapes = [t \in {} |-> A]
    /\ has_exactly_n_tags_shapes = [m \in {} |-> A]
    /\ bnodes = 0
    /\ warnings = 0
    /\ raised = FALSE
    /\ calls = 0
    /\ log = {}
    /\ last = {}
    /\ done = << >>
    /\ other = Empty

\* the API specifications enumerate no set: one process, one hash seed
Init ==
    /\ Globals
    /\ pc = "api"
    /\ input = << >>
    /\ hashseed = <<UnitOrders[1], UnitOrders[1]>>

\* a history entry: compiler op lowered name with the tag list arg and the
\* pass-through pairs, under parent
Logged(op, name, arg, pairs, parent) ==
    [op |-> op, name |-> name, arg |-> arg, pairs |-> pairs, parent |-> parent]

Invoke(entries, max) ==
    /\ calls < max
    /\ ~raised
    /\ calls' = calls + 1
    /\ log' = log \cup entries
    /\ UNCHANGED <<pc, input, done, other, hashseed>>

----------------------------------------------------------------------------
(* Any sequence of add_tags invocations *)

AddTags ==
    \E klass \in TagClasses, definition \in TagLists :
        /\ Invoke({Logged("add_tags", klass, definition, << >>, None)}, MaxCalls)
        /\ UNCHANGED last
        /\ Commit(add_tags(Cur, klass, definition))

SpecTags == Init /\ [][AddTags]_vars

----------------------------------------------------------------------------
(* Any sequence of class, concept and deprecation compiler invocations *)

\* a class definition node
ClassDef(tags, subclasses, parents, constraints, pairs) ==
    [tags |-> tags, subclasses |-> subclasses, parents |-> parents,
     constraints |-> constraints, other |-> pairs]

CustomLabel == Pair(RDFS("label"), Literal(<<"Custom">>))

ClassTagLists == {<< >>, <<TagX>>, <<TagX, TagY>>}

\* the allowed values of a constraint: a class reference, a list of them,
\* or a value of another type
AllowedClass(cls) == [kind |-> "uri", v |-> <<cls>>]

AllowedAmong(classes) == [kind |-> "list", v |-> classes]

AllowedText == [kind |-> "str", v |-> << >>]

\* the mappings handed to define_classes
ClassDefinitions ==
    {<< <<LocalName(c), ClassDef(tags, << >>, << >>, << >>, pairs)>> >> :
        c \in TagClasses, tags \in ClassTagLists,
        pairs \in {<< >>, <<CustomLabel>>}}
    \cup
    {<< <<LocalName(ClassA),
          ClassDef(<<TagX>>,
                   << <<LocalName(ClassB),
                        ClassDef(<<TagX, TagY>>, << >>, << >>, << >>, << >>)>> >>,
                   << >>, << >>, << >>)>> >>}
    \cup
    \* three levels, cross-links by "parents", and constraints of both kinds
    {<< <<LocalName(ClassA),
          ClassDef(<<TagX>>,
                   << <<LocalName(ClassB),
                        ClassDef(<<TagX, TagY>>,
                                 << <<LocalName(ClassC),
                                      ClassDef(<< >>, << >>,
                                               <<BRICK(<<"Equipment">>),
                                                 BRICK(<<"Collection">>)>>,
                                               << >>, << >>)>> >>,
                                 << >>, << >>, << >>)>> >>,
                   <<BRICK(<<"Equipment">>)>>,
                   << <<BRICK(<<"hasPoint">>), AllowedClass(BRICK(<<"Point">>))>>,
                      <<BRICK(<<"feeds">>),
                        AllowedAmong(<<BRICK(<<"Equipment">>),
                                     BRICK(<<"Location">>)>>)>> >>,
                   << >>)>> >>,
     \* a class without tags that has a subclass, a cross-link, a constraint
     \* and a pass-through pair
     << <<LocalName(ClassA),
          ClassDef(<< >>,
                   << <<LocalName(ClassB),
                        ClassDef(<<TagX>>, << >>, << >>, << >>, << >>)>> >>,
                   <<BRICK(<<"Equipment">>)>>,
                   << <<BRICK(<<"hasPoint">>), AllowedClass(BRICK(<<"Point">>))>> >>,
                   <<Pair(SKOS("definition"), Literal(<<"A", " ", "fan">>))>>)>> >>,
     \* a constraint whose allowed value is neither a class nor a list
     << <<LocalName(ClassB),
          ClassDef(<<TagX>>, << >>, << >>,
                   << <<BRICK(<<"hasPoint">>), AllowedText>> >>, << >>)>> >>}

ClassParents == {BRICK(<<"Class">>), BRICK(<<"Entity">>)}

RECURSIVE Lowered(_, _)
\* the history entries of define_classes(definitions, parent)
Lowered(definitions, parent) ==
    IF definitions = << >> THEN {}
    ELSE LET name == Head(definitions)[1]
             defn == Head(definitions)[2]
         IN {Logged("define_classes", BRICK(name), defn.tags, defn.other, parent)}
            \cup {Logged("parents", BRICK(name), << >>, << >>, p)
                  : p \in Range(defn.parents)}
            \cup {Logged("define_constraints", BRICK(name),
                         defn.constraints[j][2], << >>, defn.constraints[j][1])
                  : j \in 1..Len(defn.constraints)}
            \cup Lowered(defn.subclasses, BRICK(name))
            \cup Lowered(Tail(definitions), parent)

DefineClasses ==
    \E definitions \in ClassDefinitions, parent \in ClassParents :
        /\ Invoke(Lowered(definitions, parent), MaxClassCalls)
        /\ last' = Lowered(definitions, parent)
        /\ Commit(define_classes(Cur, definitions, parent, FALSE))

\* a concept definition node
ConceptDef(narrower, related, parents, pairs) ==
    [narrower |-> narrower, related |-> related, parents |-> parents,
     other |-> pairs]

\* the mappings handed to define_concept_hierarchy
ConceptDefinitions ==
    {<< <<LocalName(ClassA), ConceptDef(<< >>, << >>, << >>, <<CustomLabel>>)>> >>,
     << <<LocalName(ClassB),
          ConceptDef(<< <<LocalName(ClassA),
                          ConceptDef(<< >>, << >>, << >>, << >>)>> >>,
                     << >>, << >>, << >>)>> >>,
     \* a concept with a related concept nested under it
     << <<LocalName(ClassB),
          ConceptDef(<< >>,
                     << <<LocalName(ClassA),
                          ConceptDef(<< >>, << >>, << >>, << >>)>> >>,
                     << >>, << >>)>> >>,
     \* a concept linked to another tree by "parents"
     << <<LocalName(ClassA),
          ConceptDef(<< >>, << >>, <<ClassB>>, << >>)>> >>}

DefineConceptHierarchy ==
    \E definitions \in ConceptDefinitions :
        /\ Invoke({Logged("define_concept_hierarchy",
                          BRICK(Head(definitions)[1]), << >>,
                          Head(definitions)[2].other, None)}, MaxClassCalls)
        /\ last' = {}
        /\ Commit(define_concept_hierarchy(Cur, definitions,
                                           <<BRICK(<<"Quantity">>)>>, None, None))

\* the metadata of a deprecated term
Deprecation(keys, subClassOf, narrower, replace_with) ==
    [keys |-> keys, subClassOf |-> subClassOf, narrower |-> narrower,
     version |-> Literal(<<"1.2">>),
     mitigation_message |-> Literal(<<"use", " ", "the", " ", "successor">>),
     replace_with |-> replace_with]

AllKeys == {"subClassOf", "narrower", "version", "mitigation_message", "replace_with"}

\* the mappings handed to handle_deprecations
DeprecationMappings ==
    {<< <<c, Deprecation(AllKeys \ drop, <<BRICK(<<"Entity">>)>>,
                         <<BRICK(<<"Old">>)>>, BRICK(<<"New">>))>> >> :
        c \in TagClasses, drop \in {{}, {"narrower"}, {"subClassOf"}}}

HandleDeprecations ==
    \E deprecations \in DeprecationMappings :
        /\ Invoke({Logged("handle_deprecations", Head(deprecations)[1], << >>,
                          << >>, None)}, MaxClassCalls)
        /\ last' = {Logged("handle_deprecations", Head(deprecations)[1],
                           Head(deprecations)[2], << >>, None)}
        /\ Commit(handle_deprecations(Cur, deprecations))

NextClasses == DefineClasses \/ DefineConceptHierarchy \/ HandleDeprecations

SpecClasses == Init /\ [][NextClasses]_vars

----------------------------------------------------------------------------
(* Any sequence of relationship, entity-property and value-shape compiler  *)
(* invocations                                                             *)

\* compiler invocations in a run of SpecShapes
MaxShapeCalls == 2

\* a relationship definition
RelDef(types, subproperties, keys, range, datatype, domain, pairs) ==
    [types |-> types, subproperties |-> subproperties, keys |-> keys,
     range |-> range, datatype |-> datatype, domain |-> domain, other |-> pairs]

NoRange == [kind |-> "none", v |-> << >>]

RangeOf(cls) == [kind |-> "uri", v |-> <<cls>>]

RangeAmong(classes) == [kind |-> "list", v |-> classes]

NoDomain == [list |-> FALSE, v |-> << >>]

DomainOf(cls) == [list |-> FALSE, v |-> <<cls>>]

DomainAmong(classes) == [list |-> TRUE, v |-> classes]

ObjectPropertyTypes ==
    <<OWL("ObjectProperty"), OWL("AsymmetricProperty"), OWL("IrreflexiveProperty")>>

\* relationships.py lines 34-40
latitude ==
    <<<<"latitude">>,
      RelDef(<<OWL("ObjectProperty")>>, << >>, {"domain", "datatype"}, NoRange,
             BSH(<<"NumericValue">>), DomainOf(BRICK(<<"Entity">>)),
             <<Pair(RDFS("subPropertyOf"), URI("sdo", <<"latitude">>)),
               Pair(RDFS("label"), Literal(<<"Latitude">>))>>)>>

\* relationships.py lines 48-53
timestamp ==
    <<<<"timestamp">>,
      RelDef(<<RDF("Property")>>, << >>, {"domain", "datatype"}, NoRange,
             XSD("dateTime"), DomainOf(BRICK(<<"Entity">>)),
             <<Pair(RDFS("label"), Literal(<<"Timestamp">>))>>)>>

\* relationships.py lines 96-102
hasPoint ==
    <<<<"hasPoint">>,
      RelDef(ObjectPropertyTypes, << >>, {"range", "domain"},
             RangeOf(BRICK(<<"Point">>)), None,
             DomainAmong(<<BRICK(<<"Equipment">>), BRICK(<<"Location">>)>>),
             <<Pair(OWL("inverseOf"), BRICK(<<"isPointOf">>)),
               Pair(RDFS("label"), Literal(<<"Has", " ", "point">>))>>)>>

\* relationships.py lines 103-109
isPointOf ==
    <<<<"isPointOf">>,
      RelDef(ObjectPropertyTypes, << >>, {"range", "domain"},
             RangeAmong(<<BRICK(<<"Equipment">>), BRICK(<<"Location">>)>>), None,
             DomainOf(BRICK(<<"Point">>)),
             <<Pair(OWL("inverseOf"), BRICK(<<"hasPoint">>)),
               Pair(RDFS("label"), Literal(<<"Is", " ", "point", " ", "of">>))>>)>>

\* relationships.py lines 7-189, four of its entries
relationships == <<latitude, timestamp, hasPoint, isPointOf>>

\* a relationship with a nested sub-relationship
feeds ==
    <<<<"feeds">>,
      RelDef(<<OWL("ObjectProperty")>>,
             <<<<<<"feedsAir">>,
                 RelDef(<< >>,
                        <<<<<<"feedsSupplyAir">>,
                            RelDef(<< >>, << >>, {"domain"}, NoRange, None,
                                   DomainAmong(<<BRICK(<<"Equipment">>),
                                                 BRICK(<<"Location">>)>>),
                                   << >>)>>>>,
                        {"range"}, RangeOf(BRICK(<<"Equipment">>)),
                        None, NoDomain, << >>)>>>>,
             {}, NoRange, None, NoDomain,
             <<Pair(RDFS("label"), Literal(<<"Feeds">>))>>)>>

\* a relationship whose name is "has" followed by the name of an entity
\* property; names are token sequences that concatenate as the strings do
hasarea ==
    <<<<"has", "area">>,
      RelDef(<<OWL("ObjectProperty")>>, << >>, {"range"},
             RangeOf(BRICK(<<"Location">>)), None, NoDomain, << >>)>>

\* the mappings handed to define_relationships
RelationshipDefinitions ==
    {<<r>> : r \in {latitude, timestamp, hasPoint, isPointOf, feeds, hasarea}}
    \cup {relationships, << >>}

\* an entity property definition
EntDef(keys, property_of, node, label, subproperties, pairs) ==
    [keys |-> keys, property_of |-> property_of, node |-> node, label |-> label,
     subproperties |-> subproperties, other |-> pairs]

AreaShape == BSH(<<"AreaShape">>)

TemperatureShape == BSH(<<"TemperatureShape">>)

RequiredKeys == {"property_of", "node", "label"}

\* the mappings handed to define_entity_properties
EntityPropertyDefinitions ==
    {<<<<BRICK(<<"area">>),
         EntDef(RequiredKeys \ drop, <<BRICK(<<"Location">>)>>, AreaShape,
                Literal(<<"Area">>), << >>, pairs)>>>> :
        drop \in {{}, {"node"}},
        pairs \in {<< >>, <<Pair(SKOS("definition"), Literal(<<"Area">>))>>}}
    \cup
    {<<<<BRICK(<<"area">>),
         EntDef(RequiredKeys \cup {"subproperties"},
                <<BRICK(<<"Location">>), BRICK(<<"Equipment">>)>>, AreaShape,
                Literal(<<"Area">>),
                <<<<BRICK(<<"grossArea">>),
                    EntDef(RequiredKeys, <<BRICK(<<"Location">>)>>, AreaShape,
                           Literal(<<"Gross", " ", "area">>), << >>, << >>)>>>>,
                << >>)>>>>}
    \cup
    \* a later property of the mapping lacks its value shape
    {<<<<BRICK(<<"area">>),
         EntDef(RequiredKeys, <<BRICK(<<"Location">>)>>, AreaShape,
                Literal(<<"Area">>), << >>, << >>)>>,
       <<BRICK(<<"volume">>),
         EntDef(RequiredKeys \ {"node"}, <<BRICK(<<"Location">>)>>, AreaShape,
                Literal(<<"Volume">>), << >>, << >>)>>>>}
    \cup
    \* a nested property lacks its attachment targets
    {<<<<BRICK(<<"area">>),
         EntDef(RequiredKeys \cup {"subproperties"},
                <<BRICK(<<"Location">>)>>, AreaShape, Literal(<<"Area">>),
                <<<<BRICK(<<"netArea">>),
                    EntDef(RequiredKeys \ {"property_of"}, << >>, AreaShape,
                           Literal(<<"Net", " ", "area">>), << >>, << >>)>>>>,
                << >>)>>>>}

\* a value shape definition
ShapeDef(keys, values, units, unitsFromQuantity, datatype, properties, range) ==
    [keys |-> keys, values |-> values, units |-> units,
     unitsFromQuantity |-> unitsFromQuantity, datatype |-> datatype,
     properties |-> properties, range |-> range]

\* a sub-property requirement
Req(keys, optional, datatype, values, pairs) ==
    [keys |-> keys, optional |-> optional, datatype |-> datatype,
     values |-> values, other |-> pairs]

\* a mapping of sub-property requirements, without and with alternatives
SubProps(props) == [hasOr |-> FALSE, or |-> << >>, props |-> props]

SubPropsOr(alternatives, props) ==
    [hasOr |-> TRUE, or |-> alternatives, props |-> props]

NoProps == SubProps(<< >>)

PyStr(w) == [py |-> "str", n |-> <<w>>, i |-> 0]

PyInt(v) == [py |-> "int", n |-> << >>, i |-> v]

Optional == Req({"optional"}, TRUE, None, << >>, << >>)

Required == Req({"optional"}, FALSE, None, << >>, << >>)

OptionalValues == Req({"optional", "values"}, TRUE, None, <<PyStr("N")>>, << >>)

StringTyped == Req({"datatype"}, FALSE, XSD("string"), << >>, << >>)

OptionalTyped == Req({"optional", "datatype"}, TRUE, XSD("string"), << >>, << >>)

PathP == BRICK(<<"hasUnit">>)

PathQ == BRICK(<<"value">>)

ShapeS1 == BSH(<<"S1">>)

ShapeS2 == BSH(<<"S2">>)

\* a value shape that declares sub-property requirements only
PropertiesOnly(properties) ==
    ShapeDef({"properties"}, << >>, << >>, None, None, properties, << >>)

\* the mappings handed to define_shape_properties
ShapeDefinitions ==
    {<<<<shape, PropertiesOnly(SubProps(<<<<PathP, req>>>>))>>>> :
        shape \in {ShapeS1, ShapeS2},
        req \in {Optional, Required, OptionalValues, StringTyped, OptionalTyped}}
    \cup
    {<<<<ShapeS1, PropertiesOnly(SubProps(<<<<PathP, Optional>>>>))>>,
       <<ShapeS2, PropertiesOnly(SubProps(<<<<PathP, Optional>>>>))>>>>,
     <<<<ShapeS1, PropertiesOnly(
                     SubPropsOr(<<SubProps(<<<<PathP, Optional>>>>),
                                  SubProps(<<<<PathQ, OptionalValues>>>>)>>,
                                <<<<PathP, Optional>>>>))>>>>,
     <<<<AreaShape, ShapeDef({"datatype", "units"}, << >>, <<UNIT("K")>>, None,
                             BSH(<<"NumericValue">>), NoProps, << >>)>>>>,
     <<<<AreaShape, ShapeDef({"datatype", "range"}, << >>, << >>, None,
                             XSD("integer"), NoProps,
                             <<<<"minInclusive", PyInt(0)>>>>)>>>>,
     <<<<AreaShape, ShapeDef({"datatype", "range"}, << >>, << >>, None,
                             XSD("integer"), NoProps,
                             <<<<"length", PyInt(0)>>>>)>>>>,
     <<<<AreaShape, ShapeDef({"datatype", "properties"}, << >>, << >>, None,
                             XSD("string"),
                             SubProps(<<<<PathP, StringTyped>>>>), << >>)>>>>,
     <<<<AreaShape, ShapeDef({"values"}, <<PyInt(1), PyInt(2)>>, << >>, None,
                             None, NoProps, << >>)>>>>,
     <<<<AreaShape, ShapeDef({"values"}, <<PyStr("N"), PyStr("S")>>, << >>, None,
                             None, NoProps, << >>)>>>>,
     <<<<TemperatureShape,
         ShapeDef({"unitsFromQuantity"}, << >>, << >>, BRICK(<<"Temperature">>),
                  None, NoProps, << >>)>>>>}

\* the QUDT vocabulary: the units of each quantity kind
QudtUnits ==
    {[q \in {QUDTQK("Temperature")} |-> Units],
     [q \in {QUDTQK("Temperature"), QUDTQK("ThermodynamicTemperature")} |->
        IF q = QUDTQK("Temperature") THEN {UNIT("DEG_C")} ELSE {UNIT("K")}]}

RECURSIVE Requirements(_)
\* the history entries of define_shape_properties(definitions): the
\* sub-property requirements of each shape
Requirements(definitions) ==
    IF definitions = << >> THEN {}
    ELSE LET shape_name == Head(definitions)[1]
             defn == Head(definitions)[2]
         IN (IF "properties" \in defn.keys
             THEN {Logged("define_shape_property_property", shape_name,
                          defn.properties.props[j][2], << >>,
                          defn.properties.props[j][1])
                   : j \in 1..Len(defn.properties.props)}
             ELSE {})
            \cup Requirements(Tail(definitions))

\* the history entries of the value shapes of define_shape_properties(definitions)
ShapesLowered(definitions) ==
    {Logged("define_shape_properties", definitions[j][1], definitions[j][2],
            << >>, None) : j \in 1..Len(definitions)}

RECURSIVE RelationshipsLowered(_, _)
\* the history entries of define_relationships(definitions, superprop)
RelationshipsLowered(definitions, superprop) ==
    IF definitions = << >> THEN {}
    ELSE LET name == Head(definitions)[1]
             propdefn == Head(definitions)[2]
         IN {Logged("define_relationships", BRICK(name), propdefn, << >>, superprop)}
            \cup RelationshipsLowered(propdefn.subproperties, BRICK(name))
            \cup RelationshipsLowered(Tail(definitions), superprop)

\* the superproperty handed to define_relationships, if any
SuperProperties == {None, BRICK(<<"isAssociatedWith">>)}

DefineRelationships ==
    \E definitions \in RelationshipDefinitions, superprop \in SuperProperties :
        /\ Invoke({}, MaxShapeCalls)
        /\ last' = RelationshipsLowered(definitions, superprop)
        /\ Commit(define_relationships(Cur, definitions, superprop))

DefineEntityProperties ==
    \E definitions \in EntityPropertyDefinitions :
        /\ Invoke({}, MaxShapeCalls)
        /\ last' = {Logged("define_entity_properties", None, definitions,
                           << >>, None)}
        /\ Commit(define_entity_properties(Cur, definitions, None))

DefineShapeProperties ==
    \E definitions \in ShapeDefinitions, qudt \in QudtUnits :
        /\ Invoke(Requirements(definitions), MaxShapeCalls)
        /\ last' = Requirements(definitions) \cup ShapesLowered(definitions)
        /\ Commit(define_shape_properties(Cur, definitions, qudt, hashseed[1]))

NextShapes == DefineRelationships \/ DefineEntityProperties \/ DefineShapeProperties

SpecShapes == Init /\ [][NextShapes]_vars

----------------------------------------------------------------------------
(* The orchestrated run: the script from the root classes to the           *)
(* deprecations, and beside it a second run of the same input in a process *)
(* of its own                                                              *)

QuantityDef(reference, narrower) ==
    ConceptDef(narrower, << >>, << >>,
               <<Pair(BRICK(<<"hasQUDTReference">>), reference)>>)

\* the quantity taxonomies of the runs
QuantityDefinitions ==
    {<<<<<<"Temperature">>, QuantityDef(QUDTQK("Temperature"), << >>)>>>>,
     <<<<<<"Temperature">>,
         QuantityDef(QUDTQK("Temperature"),
                     <<<<<<"Differential", "_", "Temperature">>,
                         QuantityDef(QUDTQK("ThermodynamicTemperature"), << >>)>>>>)>>>>,
     \* a quantity linked to another tree by "parents"
     <<<<<<"Temperature">>, QuantityDef(QUDTQK("Temperature"), << >>)>>,
       <<<<"Operative", "_", "Temperature">>,
         ConceptDef(<< >>, << >>, <<BRICK(<<"Temperature">>)>>,
                    <<Pair(BRICK(<<"hasQUDTReference">>),
                           QUDTQK("ThermodynamicTemperature"))>>)>>>>,
     \* a quantity without a QUDT reference above one that has its own
     <<<<<<"Temperature">>,
         ConceptDef(<<<<<<"Differential", "_", "Temperature">>,
                         QuantityDef(QUDTQK("ThermodynamicTemperature"), << >>)>>>>,
                    << >>, << >>, << >>)>>>>}

\* the value shapes of the runs
RunShapes ==
    {<<<<TemperatureShape,
         ShapeDef({"unitsFromQuantity", "datatype"}, << >>, << >>,
                  BRICK(<<"Temperature">>), BSH(<<"NumericValue">>), NoProps,
                  << >>)>>>>,
     <<<<TemperatureShape,
         ShapeDef({"unitsFromQuantity"}, << >>, << >>,
                  BRICK(<<"Differential", "_", "Temperature">>), None, NoProps,
                  << >>)>>>>,
     <<<<AreaShape, ShapeDef({"datatype", "units"}, << >>, <<UNIT("K")>>, None,
                             BSH(<<"NumericValue">>), NoProps, << >>)>>,
       <<ShapeS1, PropertiesOnly(SubProps(<<<<PathP, Optional>>>>))>>>>,
     \* a shape whose values carry a brick:value without a datatype
     <<<<ShapeS2, PropertiesOnly(SubProps(<<<<PathQ, Required>>>>))>>>>}

\* the entity properties of the runs
RunEntityPropertyDefinitions ==
    {<<<<BRICK(<<"area">>),
         EntDef(RequiredKeys, <<BRICK(<<"Location">>)>>, AreaShape,
                Literal(<<"Area">>), << >>, << >>)>>>>,
     <<<<BRICK(<<"operatingTemperature">>),
         EntDef(RequiredKeys, <<BRICK(<<"Equipment">>)>>, TemperatureShape,
                Literal(<<"Operating", " ", "temperature">>), << >>, << >>)>>>>}

\* the class mappings of the runs
RunClassDefinitions ==
    {<<<<LocalName(ClassA),
         ClassDef(<<TagX>>,
                  <<<<LocalName(ClassB),
                      ClassDef(<<TagX, TagY>>, << >>, << >>, << >>, << >>)>>>>,
                  << >>, << >>, << >>)>>>>,
     <<<<LocalName(ClassA), ClassDef(<<TagX>>, << >>, << >>, << >>, <<CustomLabel>>)>>>>}

\* the definition mappings a run compiles
RunInputs ==
    {[relationships |-> relationships,
      setpoint_definitions |-> setpoints,
      sensor_definitions |-> << >>, alarm_definitions |-> << >>,
      status_definitions |-> << >>, command_definitions |-> << >>,
      parameter_definitions |-> << >>, location_subclasses |-> << >>,
      equipment_subclasses |-> << >>, collection_classes |-> << >>,
      hvac_subclasses |-> << >>, hvac_valve_subclasses |-> << >>,
      valve_subclasses |-> << >>, security_subclasses |-> << >>,
      safety_subclasses |-> << >>,
      substances |-> <<<<<<"Air">>, ConceptDef(<< >>, << >>, << >>, << >>)>>>>,
      quantity_definitions |-> quantities,
      qudt |-> qudt,
      entity_properties |-> properties,
      shapes |-> shapes,
      deprecations |-> <<<<BRICK(<<"Old">>),
                           Deprecation(AllKeys \ {"narrower"},
                                       <<BRICK(<<"Entity">>)>>, << >>,
                                       BRICK(<<"New">>))>>>>] :
        setpoints \in RunClassDefinitions, quantities \in QuantityDefinitions,
        qudt \in QudtUnits, properties \in RunEntityPropertyDefinitions,
        shapes \in RunShapes}

\* each process draws its hash seed when it starts
InitRun ==
    /\ Globals
    /\ pc = "roots"
    /\ input \in RunInputs
    /\ hashseed \in {<<o1, o2>> : o1 \in Range(UnitOrders), o2 \in Range(UnitOrders)}

\* one step of the script, made by both runs: here is the step, entry its
\* history entry, s1 and s2 the states it leaves the two runs in
RunStep(here, entry, s1, s2) ==
    /\ Commit(s1)
    /\ other' = s2
    /\ pc' = IF s1.raised THEN "aborted" ELSE NextStep(here)
    /\ done' = Append(done, entry)
    /\ UNCHANGED <<input, calls, log, last, hashseed>>

Step(op, part) == [op |-> op, part |-> part]

RunRoots ==
    /\ pc = "roots"
    /\ RunStep("roots", Step("define_classes", "roots"),
               DeclareRootClasses(Cur), DeclareRootClasses(other))

RunRelationships ==
    /\ pc = "relationships"
    /\ RunStep("relationships", Step("define_relationships", "relationships"),
               DefineProperties(Cur, input), DefineProperties(other, input))

RunPoints ==
    /\ pc = "points"
    /\ RunStep("points", Step("define_classes", "points"),
               DefinePointSubclasses(Cur, input), DefinePointSubclasses(other, input))

RunClasses ==
    /\ pc = "classes"
    /\ RunStep("classes", Step("define_classes", "structures"),
               DefineOtherClasses(Cur, input), DefineOtherClasses(other, input))

RunConcepts ==
    /\ pc = "concepts"
    /\ RunStep("concepts", Step("define_concept_hierarchy", "measurable"),
               DefineMeasurable(Cur, input), DefineMeasurable(other, input))

RunClosure ==
    /\ pc = "closure"
    /\ RunStep("closure", Step("closure", "taxonomy"),
               TaxonomyClosure(Cur), TaxonomyClosure(other))

RunUnits ==
    /\ pc = "units"
    /\ RunStep("units", Step("unit_propagation", "quantities"),
               PropagateUnits(Cur, input), PropagateUnits(other, input))

RunEntityProps ==
    /\ pc = "entity_properties"
    /\ RunStep("entity_properties", Step("define_entity_properties", "properties"),
               DefineEntityProps(Cur, input), DefineEntityProps(other, input))

RunShapeProperties ==
    /\ pc = "shape_properties"
    /\ RunStep("shape_properties", Step("define_shape_properties", "shapes"),
               DefineValueShapes(Cur, input, hashseed[1]),
               DefineValueShapes(other, input, hashseed[2]))

RunDeprecations ==
    /\ pc = "deprecations"
    /\ RunStep("deprecations", Step("handle_deprecations", "deprecations"),
               Deprecate(Cur, input), Deprecate(other, input))

NextRun ==
    \/ RunRoots
    \/ RunRelationships
    \/ RunPoints
    \/ RunClasses
    \/ RunConcepts
    \/ RunClosure
    \/ RunUnits
    \/ RunEntityProps
    \/ RunShapeProperties
    \/ RunDeprecations

SpecRun == InitRun /\ [][NextRun]_vars

\* @@CLAIMS@@
----------------------------------------------------------------------------
(* Reading the rules graph: SHACL evaluation of the emitted tag rules on   *)
(* an entity whose tag statements are exactly the set E                    *)

\* the values of E that conform to the value shape q (sh:hasValue)
ValuesConforming(S, E, q) ==
    {v \in E : \A h \in S : (h[1] = q /\ h[2] = SH("hasValue")) => v = h[3]}

\* the entity conforms to the property shape prop over the path hasTag
PropertyConforms(S, E, prop) ==
    /\ \A t \in S : (t[1] = prop /\ t[2] = SH("minCount"))
                        => Cardinality(E) >= t[3].i
    /\ \A t \in S : (t[1] = prop /\ t[2] = SH("maxCount"))
                        => Cardinality(E) <= t[3].i
    /\ \A t \in S : (t[1] = prop /\ t[2] = SH("qualifiedValueShape")) =>
          \A m \in S : (m[1] = prop /\ m[2] = SH("qualifiedMinCount")) =>
              Cardinality(ValuesConforming(S, E, t[3])) >= m[3].i

ShapeConforms(S, E, shape) ==
    \A t \in S : (t[1] = shape /\ t[2] = SH("property"))
                     => PropertyConforms(S, E, t[3])

\* the triple rule r fires: every condition of r holds of the entity
RuleFires(S, E, r) ==
    \A t \in S : (t[1] = r /\ t[2] = SH("condition")) => ShapeConforms(S, E, t[3])

\* the types asserted by the rules of the shapes whose target holds the entity
TypesBy(S, E, shapes) ==
    {o[3] : o \in {o \in S : /\ o[2] = SH("object")
                             /\ \E sh \in shapes : <<sh, SH("rule"), o[1]>> \in S
                             /\ <<o[1], SH("predicate"), RDF("type")>> \in S
                             /\ RuleFires(S, E, o[1])}}

\* first the cardinality rules (target: the subjects of hasTag) ...
CardinalityTypes(S, E) ==
    IF E = {} THEN {}
    ELSE TypesBy(S, E, {t[1] : t \in {t \in S :
                            /\ t[2] = SH("targetSubjectsOf")
                            /\ t[3] = BRICK(<<"hasTag">>)}})

\* ... then the rules of every shape whose target now holds the entity
InferredTypes(S, E) ==
    IF E = {} THEN {}
    ELSE TypesBy(S, E, {t[1] : t \in {t \in S :
                            \/ /\ t[2] = SH("targetClass")
                               /\ t[3] \in CardinalityTypes(S, E)
                            \/ /\ t[2] = SH("targetSubjectsOf")
                               /\ t[3] = BRICK(<<"hasTag">>)}})

\* the tag lists klass was compiled with
CompiledLists(klass) ==
    {e.arg : e \in {e \in log : e.op \in {"add_tags", "define_classes"}
                                /\ e.name = klass}}

NoDuplicates(seq) == Cardinality(Range(seq)) = Len(seq)

\* klass was compiled, always with a duplicate-free list of exactly the tags ts
CompiledWith(klass, ts) ==
    /\ CompiledLists(klass) # {}
    /\ \A l \in CompiledLists(klass) : Range(l) = ts /\ NoDuplicates(l)

----------------------------------------------------------------------------
(* C1: exact-match inference.  When class a was compiled with the tag set  *)
(* {x} and class b with the tag set {x, y}, an entity that carries exactly *)
(* the tags {x, y} is inferred to be b and is not inferred to be a.        *)

----------------------------------------------------------------------------
(* C2: tag sharing.  For every tag in the tag list of a compiled class the *)
(* rules graph holds exactly one detection-condition fragment (condition,  *)
(* property shape, value shape), the cache maps the tag to that condition, *)
(* every rule of a class that lists the tag references it, and a cache     *)
(* entry never changes once written.                                       *)

\* the detection fragments for tag: <<condition, property shape, value shape>>
TagFragments(S, tag) ==
    {<<pr[1][1], pr[1][3], pr[2][3]>> :
        pr \in {pr \in {c \in S : c[2] = SH("property")}
                       \X {q \in S : q[2] = SH("qualifiedValueShape")} :
                   /\ pr[1][3] = pr[2][1]
                   /\ <<pr[2][3], SH("hasValue"), tag>> \in S}}

UsedTags == UNION {Range(e.arg) : e \in {e \in log : e.op = "add_tags"}}

C2_TagSharingState ==
    \A tag \in UsedTags :
        /\ Cardinality(TagFragments(shaclGraph, tag)) = 1
        /\ tag \in DOMAIN shacl_tag_property_shapes
        /\ \A f \in TagFragments(shaclGraph, tag) :
               f[1] = shacl_tag_property_shapes[tag]
        /\ \A e \in log : (e.op = "add_tags" /\ tag \in Range(e.arg)) =>
               <<TagRuleOf(e.name), SH("condition"),
                 shacl_tag_property_shapes[tag]>> \in shaclGraph

C2_CacheWriteOnce ==
    \A tag \in DOMAIN shacl_tag_property_shapes :
        /\ tag \in DOMAIN shacl_tag_property_shapes'
        /\ shacl_tag_property_shapes'[tag] = shacl_tag_property_shapes[tag]

C2_TagSharing == [](C2_TagSharingState) /\ [][C2_CacheWriteOnce]_vars

C2_Witness ==
    /\ \E e1 \in log, e2 \in log :
          e1.name # e2.name /\ TagX \in Range(e1.arg) /\ TagX \in Range(e2.arg)
    /\ Cardinality(TagFragments(shaclGraph, TagX)) = 1

----------------------------------------------------------------------------
(* C3: cardinality sharing.  For every length n of a compiled tag list the *)
(* rules graph holds exactly one exact-cardinality fragment (a shape whose *)
(* property shape has minimum and maximum count n and no other count) and  *)
(* exactly one companion rule for it, the cache maps n to that shape,      *)
(* every class compiled with a list of length n has it as the target of    *)
(* its rule, and a cache entry never changes once written.                 *)

Counts(S, prop, which) == {t[3].i : t \in {t \in S : t[1] = prop /\ t[2] = SH(which)}}

\* the exact-cardinality fragments for n: <<shape, property shape>>
CardinalityFragments(S, n) ==
    {<<c[1], c[3]>> : c \in {c \in S : /\ c[2] = SH("property")
                                       /\ Counts(S, c[3], "minCount") = {n}
                                       /\ Counts(S, c[3], "maxCount") = {n}}}

\* the companion rules of shape: <<rule shape, rule body>>
CompanionRules(S, shape) ==
    {<<r[1], r[3]>> : r \in {r \in S : /\ r[2] = SH("rule")
                                       /\ <<r[1], SH("targetSubjectsOf"),
                                            BRICK(<<"hasTag">>)>> \in S
                                       /\ <<r[3], SH("object"), shape>> \in S
                                       /\ <<r[3], SH("condition"), shape>> \in S}}

UsedSizes == {Len(e.arg) : e \in {e \in log : e.op = "add_tags" /\ e.arg # << >>}}

C3_CardinalitySharingState ==
    \A n \in UsedSizes :
        /\ Cardinality(CardinalityFragments(shaclGraph, n)) = 1
        /\ n \in DOMAIN has_exactly_n_tags_shapes
        /\ \A f \in CardinalityFragments(shaclGraph, n) :
               /\ f[1] = has_exactly_n_tags_shapes[n]
               /\ Cardinality(CompanionRules(shaclGraph, f[1])) = 1
        /\ \A e \in log : (e.op = "add_tags" /\ Len(e.arg) = n) =>
               <<TagShapeOf(e.name), SH("targetClass"),
                 has_exactly_n_tags_shapes[n]>> \in shaclGraph

C3_CacheWriteOnce ==
    \A n \in DOMAIN has_exactly_n_tags_shapes :
        /\ n \in DOMAIN has_exactly_n_tags_shapes'
        /\ has_exactly_n_tags_shapes'[n] = has_exactly_n_tags_shapes[n]

----------------------------------------------------------------------------
(* Reading the statement graph *)

\* the label statements of c
Labels(c) == {t[3] : t \in {t \in G : t[1] = c /\ t[2] = RDFS("label")}}

\* the classes the compilers emitted
EmittedClasses == {t[1] : t \in {t \in G : t[2] = A /\ t[3] = OWL("Class")}}

\* the tags associated with class c
AssociatedTags(c) ==
    {t[3] : t \in {t \in G : t[1] = c /\ t[2] = BRICK(<<"hasAssociatedTag">>)}}

\* the conditions of the inference rule of class c
RuleConditions(c) ==
    {t[3] : t \in {t \in shaclGraph : t[1] = TagRuleOf(c) /\ t[2] = SH("condition")}}

\* the cardinality targets of the rule of class c
RuleTargets(c) ==
    {t[3] : t \in {t \in shaclGraph :
                      t[1] = TagShapeOf(c) /\ t[2] = SH("targetClass")}}

----------------------------------------------------------------------------
(* C5: every emitted class has exactly one label statement.                *)

C5_ExactlyOneLabel ==
    \A c \in EmittedClasses : Cardinality(Labels(c)) = 1

----------------------------------------------------------------------------
(* C6: idempotent label assignment.  A define_classes step that lowers a   *)
(* class it lowered before with the same declared pairs (under whatever    *)
(* parent) adds no label statement for it; and a define_classes step on a  *)
(* class that already has a label adds none but the ones its definition    *)
(* declares: the derived label is assigned only when none is present.      *)

\* the labels a definition declares among its pass-through pairs
DeclaredLabels(pairs) ==
    UNION {Range(pairs[j].v) : j \in {j \in 1..Len(pairs) : pairs[j].p = RDFS("label")}}

C6_LabelStep ==
    \A e \in last' :
        (calls' = calls + 1 /\ e.op = "define_classes") =>
            /\ (\E f \in log : /\ f.op = "define_classes"
                               /\ f.name = e.name
                               /\ f.pairs = e.pairs)
                   => {t \in G' : t[1] = e.name /\ t[2] = RDFS("label")}
                        = {t \in G : t[1] = e.name /\ t[2] = RDFS("label")}
            /\ Labels(e.name) # {}
                   => {t[3] : t \in {t \in G' : t[1] = e.name /\ t[2] = RDFS("label")}}
                        \subseteq Labels(e.name) \cup DeclaredLabels(e.pairs)

C6_IdempotentLabel == [][C6_LabelStep]_vars

C6_Witness ==
    \E e1 \in log, e2 \in log :
        /\ e1.op = "define_classes" /\ e2.op = "define_classes"
        /\ e1.name = e2.name /\ e1.pairs = e2.pairs /\ e1.parent # e2.parent
        /\ calls = 2
        /\ Cardinality(Labels(e1.name)) = 1

----------------------------------------------------------------------------
(* C9: minimal class, generalised.  For a class c lowered under parent p   *)
(* with a duplicate-free list of n >= 1 tags (and with no other tag set),  *)
(* the output holds c subClassOf p, c hasAssociatedTag t and t type Tag    *)
(* for every listed tag t, exactly one inference rule for c, whose         *)
(* conditions are exactly the detection conditions of the listed tags, and *)
(* whose only cardinality target is the exactly-n shape.                   *)

C9_MinimalClass ==
    \A e \in log :
        (/\ e.op = "define_classes"
         /\ e.arg # << >>
         /\ CompiledWith(e.name, Range(e.arg)))
        => /\ <<e.name, RDFS("subClassOf"), e.parent>> \in G
           /\ \A tag \in Range(e.arg) :
                 /\ <<e.name, BRICK(<<"hasAssociatedTag">>), tag>> \in G
                 /\ <<tag, A, BRICK(<<"Tag">>)>> \in G
                 /\ Cardinality(TagFragments(shaclGraph, tag)) = 1
           /\ AssociatedTags(e.name) = Range(e.arg)
           /\ {t[1] : t \in {t \in shaclGraph : t[2] = SH("object") /\ t[3] = e.name}}
                 = {TagRuleOf(e.name)}
           /\ <<TagShapeOf(e.name), SH("rule"), TagRuleOf(e.name)>> \in shaclGraph
           /\ RuleConditions(e.name)
                 = {f[1] : f \in UNION {TagFragments(shaclGraph, tag)
                                        : tag \in Range(e.arg)}}
           /\ Cardinality(RuleConditions(e.name)) = Len(e.arg)
           /\ Cardinality(RuleTargets(e.name)) = 1
           /\ RuleTargets(e.name)
                 = {f[1] : f \in CardinalityFragments(shaclGraph, Len(e.arg))}

C9_Witness ==
    \E e1 \in log, e2 \in log :
        /\ e1.op = "define_classes" /\ e2.op = "define_classes"
        /\ Len(e1.arg) = 1 /\ CompiledWith(e1.name, Range(e1.arg))
        /\ Len(e2.arg) = 2 /\ CompiledWith(e2.name, Range(e2.arg))
        /\ Cardinality(RuleConditions(e2.name)) = 2

----------------------------------------------------------------------------
(* C10: the tag set of a class is immutable once emitted.  Once a class    *)
(* has tag statements, no step changes its hasAssociatedTag statements,    *)
(* the conditions of its rule or its cardinality targets.                  *)

C10_TagSetStep ==
    \A c \in TagClasses :
        AssociatedTags(c) # {} =>
            /\ {t \in G' : t[1] = c /\ t[2] = BRICK(<<"hasAssociatedTag">>)}
                 = {t \in G : t[1] = c /\ t[2] = BRICK(<<"hasAssociatedTag">>)}
            /\ {t \in shaclGraph' : t[1] = TagRuleOf(c) /\ t[2] = SH("condition")}
                 = {t \in shaclGraph : t[1] = TagRuleOf(c) /\ t[2] = SH("condition")}
            /\ {t \in shaclGraph' : t[1] = TagShapeOf(c) /\ t[2] = SH("targetClass")}
                 = {t \in shaclGraph : t[1] = TagShapeOf(c) /\ t[2] = SH("targetClass")}

C10_TagSetImmutable == [][C10_TagSetStep]_vars

----------------------------------------------------------------------------
\* the unconstrained property shapes over path attached to shape
PropertyShapesOf(shape, path) ==
    {t[3] : t \in {t \in G :
                      /\ t[1] = shape
                      /\ t[2] = SH("property")
                      /\ <<t[3], SH("path"), path>> \in G
                      /\ ~\E m \in G : /\ m[1] = t[3]
                                       /\ m[2] \in {SH("minCount"), SH("maxCount")}}}

\* the optional-only sub-property requirements lowered so far
OptionalOnlyRequirements ==
    {r \in log : r.op = "define_shape_property_property" /\ OptionalOnly(r.arg)}

(* C4: shape reuse.  Once define_shape_property_property has lowered two    *)
(* sub-property requirements of two shapes on the same path, each declaring *)
(* only "optional" (true), both shapes carry one and the same property      *)
(* shape for that path: the store holds no second property shape for it.    *)
C4_ShapeReuse ==
    ~raised =>
        \A r1, r2 \in OptionalOnlyRequirements :
            (r1.parent = r2.parent /\ r1.name # r2.name) =>
                /\ PropertyShapesOf(r1.name, r1.parent)
                       = PropertyShapesOf(r2.name, r2.parent)
                /\ Cardinality(PropertyShapesOf(r1.name, r1.parent)) = 1

----------------------------------------------------------------------------
\* the positions in the history of the steps that ran the compilers ops
StepsOf(ops) == {j \in DOMAIN done : done[j].op \in ops}

\* every step of S1 is made before any step of S2
Precede(S1, S2) == \A j \in S1, k \in S2 : j < k

ClassSteps == StepsOf({"define_classes"})

RootSteps == {j \in ClassSteps : done[j].part = "roots"}

ShapeSteps == StepsOf({"define_entity_properties", "define_shape_properties"})

(* C7: fixed invocation order.  In the orchestrated run the root classes   *)
(* are compiled first; every relationship-compilation step is made before  *)
(* any other class-compilation step, every class-compilation step before   *)
(* concept-hierarchy compilation, concept-hierarchy compilation before     *)
(* unit propagation, unit propagation before entity-property and           *)
(* value-shape compilation, and these before the deprecation compiler,     *)
(* which is the last compiler step of a completed run.                     *)
C7_InvocationOrder ==
    /\ Precede(RootSteps, StepsOf({"define_relationships"}))
    /\ Precede(StepsOf({"define_relationships"}), ClassSteps \ RootSteps)
    /\ Precede(ClassSteps, StepsOf({"define_concept_hierarchy"}))
    /\ Precede(StepsOf({"define_concept_hierarchy"}), StepsOf({"unit_propagation"}))
    /\ Precede(StepsOf({"unit_propagation"}), ShapeSteps)
    /\ Precede(ShapeSteps, StepsOf({"handle_deprecations"}))
    /\ pc = "compiled" =>
          /\ done[Len(done)].op = "handle_deprecations"
          /\ \A op \in {"define_classes", "define_relationships",
                        "define_concept_hierarchy", "unit_propagation",
                        "define_entity_properties", "define_shape_properties"} :
                StepsOf({op}) # {}

\* a run has gone through every step of the script
C7_Witness ==
    /\ pc = "compiled"
    /\ ~raised
    /\ RootSteps # {}
    /\ ClassSteps \ RootSteps # {}
    /\ StepsOf({"define_relationships"}) # {}
    /\ StepsOf({"handle_deprecations"}) # {}

\* C7 as stated: every relationship step before any class step, classes
\* before concept hierarchies, these before unit propagation, and
\* entity-property / value-shape compilation the last compiler step
C7_OrderAsStated ==
    /\ Precede(StepsOf({"define_relationships"}), ClassSteps)
    /\ Precede(ClassSteps, StepsOf({"define_concept_hierarchy"}))
    /\ Precede(StepsOf({"define_concept_hierarchy"}), StepsOf({"unit_propagation"}))
    /\ pc = "compiled" => Len(done) \in ShapeSteps

----------------------------------------------------------------------------
IsBlank(node) == node.k = "_:"

\* the blank nodes of a graph
Blanks(graph) ==
    {t[1] : t \in {t \in graph : IsBlank(t[1])}}
    \cup {t[3] : t \in {t \in graph : IsBlank(t[3])}}

\* what a blank node is to the named nodes of the graph
Signature(graph, b) ==
    {<<"s", t[2], t[3]>> : t \in {t \in graph : t[1] = b /\ ~IsBlank(t[3])}}
    \cup {<<"o", t[1], t[2]>> : t \in {t \in graph : t[3] = b /\ ~IsBlank(t[1])}}

RECURSIVE Renamings(_, _, _)
\* the one-to-one renamings of the blank nodes B of g1 into those of g2
\* that keep their signatures, as sets of pairs
Renamings(g1, g2, B) ==
    IF B = {} THEN {{}}
    ELSE LET b == CHOOSE x \in B : TRUE
             candidates == {c \in Blanks(g2) : Signature(g2, c) = Signature(g1, b)}
         IN UNION {{m \cup {<<b, c>>}
                    : c \in {c \in candidates : \A pr \in m : pr[2] # c}}
                   : m \in Renamings(g1, g2, B \ {b})}

Renamed(m, node) ==
    IF IsBlank(node) THEN (CHOOSE pr \in m : pr[1] = node)[2] ELSE node

\* the graphs are equal up to a renaming of blank nodes
Isomorphic(g1, g2) ==
    \/ g1 = g2
    \/ /\ Cardinality(g1) = Cardinality(g2)
       /\ Cardinality(Blanks(g1)) = Cardinality(Blanks(g2))
       /\ \E m \in Renamings(g1, g2, Blanks(g1)) :
              {<<Renamed(m, t[1]), t[2], Renamed(m, t[3])>> : t \in g1} = g2

(* C8: determinism.  Two completed runs of the same input, each in a       *)
(* process of its own, end with the same statement graph and the same      *)
(* rules graph up to a renaming of blank nodes, the order of every emitted *)
(* list included.                                                          *)
C8_Determinism ==
    (pc = "compiled" /\ ~raised /\ ~other.raised) =>
        /\ Isomorphic(G, other.G)
        /\ Isomorphic(shaclGraph, other.shaclGraph)

----------------------------------------------------------------------------
\* what handle_deprecations is to emit for a term whose metadata declares
\* its subclass edges
DeprecationStatements(term, md) ==
    {<<term, A, OWL("Class")>>,
     <<term, OWL("deprecated"), LiteralTrue>>,
     <<term, RDFS("label"), Literal(Replace(LocalName(term), "_", " "))>>,
     <<term, BRICK(<<"deprecatedInVersion">>), md.version>>,
     <<term, BRICK(<<"deprecationMitigationMessage">>), md.mitigation_message>>,
     <<term, BRICK(<<"isReplacedBy">>), md.replace_with>>}
    \cup {<<term, RDFS("subClassOf"), c>> : c \in Range(md.subClassOf)}

\* the steps of handle_deprecations on a term with declared subclass edges
C11_DeprecationStep ==
    \A e \in last' :
        (calls' = calls + 1 /\ e.op = "handle_deprecations") =>
            /\ {"subClassOf", "version", "mitigation_message", "replace_with"}
                    \subseteq e.arg.keys
                  => /\ ~raised'
                     /\ G' = G \cup DeprecationStatements(e.name, e.arg)
                     /\ \A t \in G' \ G : t[2] # SKOS("narrower")
            /\ ~(/\ \E t \in G' \ G : t[2] = RDFS("subClassOf")
                 /\ \E t \in G' \ G : t[2] = SKOS("narrower"))

(* C11: deprecation scenario.  A handle_deprecations step on a term whose  *)
(* metadata declares subClassOf [X], a version, a mitigation message and   *)
(* replace_with Y adds to the store exactly the class assertion, the       *)
(* deprecated flag, the label, subClassOf X, the version literal, the      *)
(* mitigation message and isReplacedBy Y of that term, and no narrower     *)
(* edge, also when the metadata declares narrower concepts; no step emits  *)
(* subclass edges and narrower edges together.                             *)
C11_DeprecationScenario == [][C11_DeprecationStep]_vars

\* a term deprecated with both subclass edges and narrower concepts declared
C11_Witness ==
    \E e \in last :
        /\ e.op = "handle_deprecations"
        /\ {"subClassOf", "narrower"} \subseteq e.arg.keys
        /\ ~raised
        /\ DeprecationStatements(e.name, e.arg) \subseteq G
        /\ Cardinality(DeprecationStatements(e.name, e.arg)) = 7
        /\ ~\E t \in G : t[1] = e.name /\ t[2] = SKOS("narrower")

----------------------------------------------------------------------------
(* Reading the lists of a graph *)

\* the objects of the statements (node, predicate, _) of graph
Objects(graph, node, predicate) ==
    {t[3] : t \in {t \in graph : t[1] = node /\ t[2] = predicate}}

RECURSIVE ListMembers(_, _)
\* the members of the rdf:first / rdf:rest list that starts at node
ListMembers(graph, node) ==
    IF \/ node = RDF("nil")
       \/ Objects(graph, node, RDF("first")) = {}
       \/ Objects(graph, node, RDF("rest")) = {}
    THEN << >>
    ELSE <<CHOOSE f \in Objects(graph, node, RDF("first")) : TRUE>>
         \o ListMembers(graph, CHOOSE r \in Objects(graph, node, RDF("rest")) : TRUE)

RECURSIVE IsList(_, _, _)
\* the list that starts at node is well formed and holds exactly items
IsList(graph, node, items) ==
    IF items = << >>
    THEN /\ Objects(graph, node, RDF("first")) = {}
         /\ Objects(graph, node, RDF("rest")) = {RDF("nil")}
    ELSE /\ Objects(graph, node, RDF("first")) = {Head(items)}
         /\ Cardinality(Objects(graph, node, RDF("rest"))) = 1
         /\ IF Len(items) = 1
            THEN Objects(graph, node, RDF("rest")) = {RDF("nil")}
            ELSE \A r \in Objects(graph, node, RDF("rest")) :
                     IsList(graph, r, Tail(items))

\* the list at head is one class-constraint fragment per class, in order
IsClassDisjunction(graph, head, classes) ==
    LET members == ListMembers(graph, head)
    IN /\ IsList(graph, head, members)
       /\ Len(members) = Len(classes)
       /\ \A j \in 1..Len(members) :
              /\ IsBlank(members[j])
              /\ {t \in graph : t[1] = members[j]}
                    = {<<members[j], SH("class"), classes[j]>>}
       /\ \A j, k \in 1..Len(members) : j # k => members[j] # members[k]

\* a define_relationships step that lowers a relationship with a list range
\* for the first time
C12_RangeStep ==
    \A e \in last' :
        (/\ calls' = calls + 1
         /\ e.op = "define_relationships"
         /\ "range" \in e.arg.keys
         /\ e.arg.range.kind = "list"
         /\ <<RelationshipShape(e.name), A, SH("PropertyShape")>> \notin G)
        => /\ {t[1] : t \in {t \in G' : t[2] = SH("path") /\ t[3] = e.name}}
                 = {RelationshipShape(e.name)}
           /\ Objects(G', RelationshipShape(e.name), SH("class")) = {}
           /\ Cardinality(Objects(G', RelationshipShape(e.name), SH("or"))) = 1
           /\ \A head \in Objects(G', RelationshipShape(e.name), SH("or")) :
                  IsClassDisjunction(G', head, e.arg.range.v)

(* C12: disjunctive range.  A define_relationships step that lowers a      *)
(* relationship declared with a list range [A, B, ...] leaves exactly one  *)
(* property shape over that relationship, carrying one disjunction whose   *)
(* list holds one class-constraint fragment per listed class in the        *)
(* declared order, and no class constraint of its own.                     *)
C12_DisjunctiveRange == [][C12_RangeStep]_vars

\* isPointOf lowered: one shape, one disjunction of two fragments
C12_Witness ==
    \E e \in last :
        /\ e.op = "define_relationships"
        /\ "range" \in e.arg.keys
        /\ e.arg.range.kind = "list"
        /\ Len(e.arg.range.v) = 2
        /\ \E head \in Objects(G, RelationshipShape(e.name), SH("or")) :
               /\ IsBlank(head)
               /\ Len(ListMembers(G, head)) = 2

----------------------------------------------------------------------------
RECURSIVE LacksMetadata(_)
\* some property of definitions, nested ones included, declares no
\* attachment target or no value shape
LacksMetadata(definitions) ==
    /\ definitions # << >>
    /\ \/ ~({"property_of", "node"} \subseteq Head(definitions)[2].keys)
       \/ /\ "subproperties" \in Head(definitions)[2].keys
          /\ LacksMetadata(Head(definitions)[2].subproperties)
       \/ LacksMetadata(Tail(definitions))

\* a define_entity_properties step on definitions that lack metadata
C13_MissingStep ==
    \A e \in last' :
        (/\ calls' = calls + 1
         /\ e.op = "define_entity_properties"
         /\ LacksMetadata(e.arg))
        => /\ raised'
           /\ G' = G
           /\ shaclGraph' = shaclGraph

(* C13: missing required metadata.  A define_entity_properties step on     *)
(* definitions in which some property (the first, a later one, or one      *)
(* nested under "subproperties") lacks its attachment-target or its        *)
(* value-shape declaration raises an error and leaves the store as it was  *)
(* before the invocation.                                                  *)
C13_MissingMetadata == [][C13_MissingStep]_vars

----------------------------------------------------------------------------
(* C14: store interface.  During the whole compilation the statement store *)
(* and the rules store only grow: a statement once asserted is present in  *)
(* every later state of the run.                                           *)
C14_StoreGrows == [][G \subseteq G' /\ shaclGraph \subseteq shaclGraph']_vars

----------------------------------------------------------------------------
\* the tag lists class c was compiled with by add_tags
TagListsOf(c) ==
    {e.arg : e \in {e \in log : e.op = "add_tags" /\ e.name = c /\ e.arg # << >>}}

(* C15: cardinality equals tag-set size.  The cardinality targets bound to *)
(* the rule of a class are the exactly-n shapes with n the number of       *)
(* distinct tags of a tag list the class was compiled with.                *)
C15_CardinalityIsSetSize ==
    \A c \in TagClasses :
        RuleTargets(c)
          = UNION {{f[1] : f \in CardinalityFragments(shaclGraph,
                                                     Cardinality(Range(definition)))}
                   : definition \in TagListsOf(c)}

----------------------------------------------------------------------------
RECURSIVE SuperClasses(_, _)
\* the classes of S and their superclasses (rdfs:subClassOf*)
SuperClasses(graph, S) ==
    LET more == {t[3] : t \in {t \in graph : t[1] \in S /\ t[2] = RDFS("subClassOf")}}
    IN IF more \subseteq S THEN S ELSE SuperClasses(graph, S \cup more)

\* rdf:type/rdfs:subClassOf* brick:Entity
EntityConcept(graph, c) ==
    BRICK(<<"Entity">>) \in SuperClasses(graph, Objects(graph, c, A))

\* the closure step of the run has been made
ClosureDone == StepsOf({"closure"}) # {}

(* C16: taxonomy closure.  Once the closure step has run, every broader    *)
(* edge (c broader b) of a concept reachable from the entity root has its  *)
(* inverse (b narrower c) in the store, and every narrower edge            *)
(* (b narrower c) of such a concept has its inverse (c broader b), the     *)
(* edges of "parents" cross-links included.                                *)
C16_TaxonomyClosure ==
    ClosureDone =>
        \A t \in G :
            /\ (t[2] = SKOS("broader") /\ EntityConcept(G, t[1]))
                   => <<t[3], SKOS("narrower"), t[1]>> \in G
            /\ (t[2] = SKOS("narrower") /\ EntityConcept(G, t[3]))
                   => <<t[3], SKOS("broader"), t[1]>> \in G

----------------------------------------------------------------------------
\* the taxonomy edges a step adds come with their inverses
C17_InsertStep ==
    \A t \in G' \ G :
        /\ t[2] = SKOS("broader") => <<t[3], SKOS("narrower"), t[1]>> \in G'
        /\ t[2] = SKOS("related") => <<t[3], SKOS("related"), t[1]>> \in G'

(* C17: bidirectional-insert invariant.  Whenever define_concept_hierarchy *)
(* asserts (c broader b) it also asserts (b narrower c), and whenever it   *)
(* asserts (c related r) it also asserts (r related c), for the edges of   *)
(* nested "narrower" / "related" mappings and for those of "parents"       *)
(* cross-links.                                                            *)
C17_BidirectionalInsert == [][C17_InsertStep]_vars

----------------------------------------------------------------------------
\* unit propagation has been made
UnitsDone == StepsOf({"unit_propagation"}) # {}

\* the quantity concepts of the taxonomy
Quantities == {t[1] : t \in {t \in G : t[2] = A /\ t[3] = BRICK(<<"Quantity">>)}}

(* C18: unit propagation.  Once the unit propagation step has run, every   *)
(* applicable unit of a concept strictly narrower than a quantity Q (one   *)
(* that reaches Q by one or more broader edges) is an applicable unit of   *)
(* Q, whether or not Q declares a QUDT reference.                          *)
C18_UnitPropagation ==
    UnitsDone =>
        \A Q \in Quantities :
            \A S \in BroaderPlus(G, Q, {}) :
                Objects(G, S, QUDT("applicableUnit"))
                    \subseteq Objects(G, Q, QUDT("applicableUnit"))

----------------------------------------------------------------------------
\* the subclass edges the classes lowered by a step are to get: one to the
\* enclosing class (or the given parent), one to each class of "parents"
HierarchyEdges(entries) ==
    {<<e.name, RDFS("subClassOf"), e.parent>>
     : e \in {e \in entries : e.op \in {"define_classes", "parents"}}}

\* a define_classes step emits these subclass edges and no other
C19_HierarchyStep ==
    (calls' = calls + 1 /\ \E e \in last' : e.op = "define_classes") =>
        /\ HierarchyEdges(last') \subseteq G'
        /\ {t \in G' \ G : t[2] = RDFS("subClassOf")} \subseteq HierarchyEdges(last')

(* C19: class hierarchy edges.  After define_classes(definitions, parent)  *)
(* every top-level class is a subclass of parent, every class nested under *)
(* "subclasses", at any depth, is a subclass of the class that directly    *)
(* encloses it, every class is a subclass of each class of its "parents",  *)
(* and the invocation emits no other subclass edge.                        *)
C19_HierarchyEdges == [][C19_HierarchyStep]_vars

\* three levels lowered, with the cross-links of the innermost class
C19_Witness ==
    /\ ~raised
    /\ \E e \in last : e.op = "define_classes" /\ e.name = ClassA
    /\ <<ClassB, RDFS("subClassOf"), ClassA>> \in G
    /\ <<ClassC, RDFS("subClassOf"), ClassB>> \in G
    /\ <<ClassC, RDFS("subClassOf"), BRICK(<<"Collection">>)>> \in G
    /\ <<ClassC, RDFS("subClassOf"), ClassA>> \notin G
    /\ Logged("parents", ClassC, << >>, << >>, BRICK(<<"Collection">>)) \in last

----------------------------------------------------------------------------
\* the property shapes over path that a step attaches to class c
NewPropertyShapes(c, path) ==
    {t[3] : t \in {t \in G' \ G : /\ t[1] = c
                                  /\ t[2] = SH("property")
                                  /\ <<t[3], SH("path"), path>> \in G'}}

\* a step that lowers constraints: e.name is the class, e.parent the
\* property, e.arg the allowed value
C20_ConstraintStep ==
    \A e \in last' :
        (calls' = calls + 1 /\ e.op = "define_constraints") =>
            CASE e.arg.kind = "uri" ->
                   /\ Cardinality(NewPropertyShapes(e.name, e.parent)) = 1
                   /\ \A pnode \in NewPropertyShapes(e.name, e.parent) :
                          {t \in G' : t[1] = pnode}
                            = {<<pnode, SH("path"), e.parent>>,
                               <<pnode, SH("class"), e.arg.v[1]>>}
              [] e.arg.kind = "list" ->
                   /\ Cardinality(NewPropertyShapes(e.name, e.parent)) = 1
                   /\ \A pnode \in NewPropertyShapes(e.name, e.parent) :
                          /\ {t \in G' : t[1] = pnode /\ t[2] # SH("or")}
                                = {<<pnode, SH("path"), e.parent>>}
                          /\ Cardinality(Objects(G', pnode, SH("or"))) = 1
                          /\ \A head \in Objects(G', pnode, SH("or")) :
                                 IsClassDisjunction(G', head, e.arg.v)
              [] OTHER -> raised'

(* C20: constraint lowering.  For every constraint {property -> allowed}   *)
(* of a class that define_constraints lowers, the class gets one property  *)
(* shape with the property as its path; for a single class reference the   *)
(* shape requires that class, for a list it carries one disjunction that   *)
(* lists one class fragment per element in the declared order, and for any *)
(* other kind of allowed value an error is raised.                         *)
C20_ConstraintLowering == [][C20_ConstraintStep]_vars

\* a class lowered with a class constraint and a list constraint
C20_Witness ==
    /\ ~raised
    /\ \E e1, e2 \in last :
          /\ e1.op = "define_constraints" /\ e1.arg.kind = "uri"
          /\ e2.op = "define_constraints" /\ e2.arg.kind = "list"
          /\ e1.name = e2.name
          /\ Len(e2.arg.v) = 2
          /\ \E pnode \in Objects(G, e2.name, SH("property")) :
                 \E head \in Objects(G, pnode, SH("or")) :
                     Len(ListMembers(G, head)) = 2

----------------------------------------------------------------------------
\* the classes a step lowers without tags
Untagged(entries) == {e \in entries : e.op = "define_classes" /\ e.arg = << >>}

\* add_tags with an empty list changes nothing, and a define_classes step
\* reports every class without tags and lowers the rest of its definition
C21_EmptyTagsStep ==
    /\ \A c \in TagClasses \cup {ClassC} : add_tags(Cur, c, << >>) = Cur
    /\ (calls' = calls + 1 /\ ~raised' /\ Untagged(last') # {}) =>
          /\ warnings' = warnings + Cardinality(Untagged(last'))
          /\ \A e \in Untagged(last') :
                /\ {t \in G' \ G : t[2] = BRICK(<<"hasAssociatedTag">>)
                                   /\ t[1] = e.name} = {}
                /\ {t \in shaclGraph' \ shaclGraph
                      : t[1] \in {TagShapeOf(e.name), TagRuleOf(e.name)}} = {}
                /\ UNION {PairStatements(e.name, e.pairs[j])
                          : j \in 1..Len(e.pairs)} \subseteq G'
          /\ (\A e \in last' : e.op = "define_classes" => e.arg = << >>)
                => /\ shaclGraph' = shaclGraph
                   /\ shacl_tag_property_shapes' = shacl_tag_property_shapes
                   /\ has_exactly_n_tags_shapes' = has_exactly_n_tags_shapes
          /\ HierarchyEdges(last') \subseteq G'
          /\ \A e \in last' :
                e.op = "define_constraints"
                    => NewPropertyShapes(e.name, e.parent) # {}

(* C21: empty tag list.  add_tags invoked with an empty tag list leaves    *)
(* the statement graph, the rules graph and both caches as they are;       *)
(* define_classes reports a warning for a class without tags and still     *)
(* lowers its subclasses, parents, constraints and pass-through pairs.     *)
C21_EmptyTagList == [][C21_EmptyTagsStep]_vars

\* a class without tags lowered with its subclass, cross-link, constraint
\* and pass-through pair
C21_Witness ==
    /\ ~raised
    /\ warnings > 0
    /\ \E e \in Untagged(last) :
          /\ e.pairs # << >>
          /\ \E f \in last : f.op = "define_classes" /\ f.parent = e.name
          /\ \E f \in last : f.op = "parents" /\ f.name = e.name
          /\ \E f \in last : f.op = "define_constraints" /\ f.name = e.name
          /\ Objects(G, e.name, BRICK(<<"hasAssociatedTag">>)) = {}
          /\ Objects(G, e.name, SH("property")) # {}

----------------------------------------------------------------------------
\* the named nodes of graph whose sh:path is prop
NamedShapesOver(graph, prop) ==
    {t[1] : t \in {t \in graph : /\ t[2] = SH("path")
                                 /\ t[3] = prop
                                 /\ ~IsBlank(t[1])}}

\* what a define_relationships step leaves for every relationship it lowers
C22_RelationshipStep ==
    \A e \in last' :
        (calls' = calls + 1 /\ e.op = "define_relationships") =>
            /\ <<e.name, RDFS("subPropertyOf"), BRICK(<<"Relationship">>)>> \in G'
            /\ e.parent # None => <<e.name, RDFS("subPropertyOf"), e.parent>> \in G'
            /\ NamedShapesOver(G', e.name) = {RelationshipShape(e.name)}
            /\ <<RelationshipShape(e.name), A, SH("PropertyShape")>> \in G'
            /\ "domain" \in e.arg.keys =>
                  \A d \in Range(e.arg.domain.v) :
                      <<d, SH("property"), RelationshipShape(e.name)>> \in G'

(* C22: relationship hierarchy.  After define_relationships(definitions,   *)
(* superprop) every relationship, at any nesting depth, is a               *)
(* sub-relationship of the Relationship root and of the relationship that  *)
(* directly encloses it (a top-level one of superprop, when one is given), *)
(* has exactly one property shape whose path it is, and that shape is a    *)
(* property of every class of its "domain".                                *)
C22_RelationshipHierarchy == [][C22_RelationshipStep]_vars

\* three levels lowered under a given superproperty, the innermost with a
\* list of domain classes
C22_Witness ==
    \E e1, e2, e3 \in last :
        /\ e1.op = "define_relationships" /\ e1.parent \in SuperProperties \ {None}
        /\ e2.op = "define_relationships" /\ e2.parent = e1.name
        /\ e3.op = "define_relationships" /\ e3.parent = e2.name
        /\ "domain" \in e3.arg.keys /\ Len(e3.arg.domain.v) = 2
        /\ <<e3.name, RDFS("subPropertyOf"), e2.name>> \in G
        /\ <<e3.name, RDFS("subPropertyOf"), e1.name>> \notin G
        /\ <<e1.name, RDFS("subPropertyOf"), e1.parent>> \in G

----------------------------------------------------------------------------
\* the requirement declares "optional" as true
DeclaredOptional(prop_defn) == "optional" \in prop_defn.keys /\ prop_defn.optional

\* the property shapes a step makes for its optional requirements carry no
\* minimum count
C23_OptionalStep ==
    \A r \in last' :
        (/\ calls' = calls + 1
         /\ r.op = "define_shape_property_property"
         /\ DeclaredOptional(r.arg))
        => \A ps \in NewPropertyShapes(r.name, r.parent) :
               Objects(G', ps, SH("minCount")) = {}

(* C23: optional sub-properties stay optional.  The property shape that    *)
(* define_shape_property_property makes for a requirement with "optional"  *)
(* true carries no minimum count, whatever else the requirement declares   *)
(* (a datatype, enumerated values, further pairs).                         *)
C23_OptionalStaysOptional == [][C23_OptionalStep]_vars

----------------------------------------------------------------------------
\* the value property shapes (those over brick:value) a step attaches to shape
NewValueShapes(shape) == NewPropertyShapes(shape, BRICK(<<"value">>))

\* a define_shape_properties step on a shape that declares a datatype
C24_DatatypeStep ==
    \A e \in last' :
        (/\ calls' = calls + 1
         /\ ~raised'
         /\ e.op = "define_shape_properties"
         /\ "datatype" \in e.arg.keys)
        => /\ NewValueShapes(e.name) # {}
           /\ \A v \in NewValueShapes(e.name) :
                  DatatypeStatement(v, e.arg.datatype) \in G'

(* C24: a declared datatype is never dropped.  The value property shape of *)
(* a value shape that declares a "datatype" carries the datatype           *)
(* constraint (the numeric disjunction for the numeric sentinel), also     *)
(* when the shape declares nested "properties".                            *)
C24_DatatypeKept == [][C24_DatatypeStep]_vars

----------------------------------------------------------------------------
\* the named property shapes of a graph
NamedPropertyShapes(graph) ==
    {t[1] : t \in {t \in graph : /\ t[2] = A
                                 /\ t[3] = SH("PropertyShape")
                                 /\ ~IsBlank(t[1])}}

(* C25: one path per property shape.  After any sequence of                *)
(* define_relationships and define_entity_properties invocations every     *)
(* named property shape of the store has exactly one path: a relationship  *)
(* named "hasX" and an entity property named "X" never share one shape.    *)
C25_OnePathPerShape ==
    \A pshape \in NamedPropertyShapes(G) :
        Cardinality(Objects(G, pshape, SH("path"))) = 1

====
